---- MODULE Spec2Model ----
\* Verification model of the YOLOv2 FPGA accelerator repository:
\*   - the double-buffered tile scheduler (YOLO2_FPGA, intra_pingpong_wrapper),
\*   - the arena planner (generate_iofm_offset / yolo2_generate_iofm_offset),
\*   - the layer sequencers and their quantization state
\*     (yolov2_hls_ps and yolo2_run_inference).
EXTENDS Integers, Sequences, FiniteSets, TLC

----------------------------------------------------------------------------
\* Bounds of the model (scaled-down on-chip capacities and input ranges).
Tm == 2
Tn == 2
Tr == 1
Tc == 1
MaxFilters == 5
MaxChannels == 3
MaxPlane == 2
MaxCalls == 2

\* Program constants.
K == 3
S == 2
CONVOLUTIONAL == "CONVOLUTIONAL"
MAXPOOL == "MAXPOOL"

OnChipIB_Width == (Tc - 1) * S + K
OnChipIB_Height == (Tr - 1) * S + K

MIN(x, y) == IF x < y THEN x ELSE y

\* (int)ceil(((float)a)/b) for positive a, b
CeilDiv(a, b) == (a + b - 1) \div b

----------------------------------------------------------------------------
VARIABLES
    \* ---- tile scheduler (YOLO2_FPGA) ----
    pc,             \* position inside YOLO2_FPGA
    calls,          \* number of YOLO2_FPGA calls made so far
    job,            \* the arguments of the current call
    r, c, m,        \* loop variables of YOLO2_FPGA
    TR_MIN, TC_MIN,
    pingpongm,
    m0, m1, TM_MIN0, TM_MIN1,   \* int m0[1], m1[1], TM_MIN0[1], TM_MIN1[1]
    tmp_x, tmp_tx_min,          \* function statics of intra_pingpong_wrapper
    n, pingpong, n0, n1,        \* locals of the convolution branch
    input_buffer,               \* input_buffer0 / input_buffer1   (what they hold)
    weight_buffer,              \* weight_buffer0 / weight_buffer1 (what they hold)
    output_buffer,              \* output_buffer / output_buffer1  (what they hold)
    local_beta_buffer,          \* static bias cache of compute()
    ldCnt, prCnt, wrCnt,        \* per spatial tile: enabled loads, computes, write-backs
    lastLoad, lastProc, lastWrite  \* the most recent enabled calls of the current iteration

schedVars == <<pc, calls, job, r, c, m, TR_MIN, TC_MIN, pingpongm, m0, m1, TM_MIN0, TM_MIN1,
               tmp_x, tmp_tx_min, n, pingpong, n0, n1, input_buffer, weight_buffer,
               output_buffer, local_beta_buffer, ldCnt, prCnt, wrCnt,
               lastLoad, lastProc, lastWrite>>

VARIABLES
    \* ---- arena planner (yolo2_generate_iofm_offset) and its caller ----
    net,            \* the layer list (net->layers[0..n-1])
    in_ptr, out_ptr,\* ctx->in_ptr[32], ctx->out_ptr[32] as element offsets from Memory_buf
    plan_pc,        \* position inside yolo2_generate_iofm_offset / its caller
    plan_x,         \* loop variable x of the planner
    plan_rc,        \* return value of the planner
    exec_i          \* number of layers the caller has executed after planning

planVars == <<net, in_ptr, out_ptr, plan_pc, plan_x, plan_rc, exec_i>>

VARIABLES
    \* ---- layer sequencer (yolov2_hls_ps / yolo2_run_inference) ----
    impl,           \* which sequencer runs: "hls" or "linux"
    precision,      \* Precision argument of yolov2_hls_ps
    weight_q, bias_q, act_q,    \* the Q tables
    offset_index, woffset, boffset,
    current_Qa, route24_q, pending_route_q,
    seq_pc,         \* "idle", "run" (inside the layer loop), "done" (returned)
    layer_i,        \* loop variable i of the layer loop
    seq_rc,         \* return value of the last inference call
    runs,           \* number of inference calls made so far
    prev_end,       \* how the previous inference call ended
    gpio,           \* the four Q GPIO registers <<Qw, Qa_in, Qa_out, Qb>>
    starts,         \* layers for which AP_START was written in this inference
    failed_at,      \* layer for which the backend reported a failure, or -1
    backend_result, \* result of the most recent backend call of this inference
    lastJob,        \* arguments of the most recent convolution handed to the backend
    stored          \* per layer: the fixed-point image of SampleReal in its output

seqVars == <<impl, precision, weight_q, bias_q, act_q, offset_index, woffset, boffset,
             current_Qa, route24_q, pending_route_q, seq_pc, layer_i, seq_rc, runs,
             prev_end, gpio, starts, failed_at, backend_result, lastJob, stored>>

VARIABLES
    \* ---- Linux driver and the accelerator's control interface ----
    initialized,    \* static int initialized
    ap_start, ap_done, ap_ready,   \* bits of AP_CTRL held by the device
    dev_running,    \* the device is processing a job (IDLE bit low)
    ready_cor,      \* whether this core clears READY when AP_CTRL is read
    drv_pc,         \* position inside the driver call
    drv_job,        \* arguments of the current driver call
    status,         \* local variable status (last AP_CTRL value read)
    was_running, poll_i,           \* locals of wait_for_idle
    wait_ret,       \* which call site wait_for_idle returns to
    drv_result,     \* return value of the driver call
    call_writes,    \* what the current call has written: "gpio", "regs", "start"
    jobs_called,    \* number of driver calls made
    start_writes,   \* number of AP_START writes
    ends_at_start,  \* dev_ends when the current call wrote AP_START
    dev_begins, dev_ends,          \* jobs the device has begun / completed
    busy_ret, busy_truth,          \* last yolo2_is_busy result, and the device state then
    q_gpio,         \* the four Q GPIO data registers
    ctrl_params     \* layer parameters held in the control registers

drvVars == <<initialized, ap_start, ap_done, ap_ready, dev_running, ready_cor, drv_pc,
             drv_job, status, was_running, poll_i, wait_ret, drv_result, call_writes,
             jobs_called, start_writes, ends_at_start, dev_begins, dev_ends, busy_ret,
             busy_truth, q_gpio, ctrl_params>>

VARIABLES
    \* ---- cache maintenance of the Linux orchestrator ----
    cache_pc,       \* position in main / yolo2_run_inference
    cache_i,        \* layer index i of the layer loop
    cache_runs,     \* inferences completed
    dirty,          \* ranges written by the CPU and not flushed since
    stale,          \* ranges written by the device and not invalidated since
    dev_reads,      \* ranges read by the job last started
    dev_read_dirty, \* dirty ranges that job read
    cpu_reads,      \* ranges last read by the CPU from a DMA buffer
    cpu_read_stale  \* stale ranges that read touched

cacheVars == <<cache_pc, cache_i, cache_runs, dirty, stale, dev_reads, dev_read_dirty,
               cpu_reads, cpu_read_stale>>

VARIABLES
    \* ---- the rescale of the compute kernel, applied forth and back ----
    rs_pc,          \* "in": value drawn, "mid": rescaled by s, "out": rescaled back
    rs_mode,        \* INT16 (INT16_MODE build) or FP32
    rs_v,           \* the value to rescale
    rs_s,           \* the shift s
    rs_mid, rs_out  \* the value after the first and after the second rescale

rescaleVars == <<rs_pc, rs_mode, rs_v, rs_s, rs_mid, rs_out>>

VARIABLES
    \* ---- one max-pool window: input loader and pool kernel ----
    pool_pc,        \* "in", "loaded", "done"
    pool_mode,      \* INT16 (INT16_MODE build) or FP32
    pool_image,     \* the input feature map in memory, [row][col]
    pool_Input_w, pool_Input_h,    \* its size
    pool_Coffset, pool_Roffset,    \* image position of the tile's first column / row
    pool_TN_Enable, \* t1 < TN_MIN for the channel of this window
    pool_ibuf,      \* input_buffer[t1][t2][t3] for t2, t3 in the window
    pool_tmp,       \* tmp[of]
    pool_tap,       \* number of kernel taps (i, j) done
    pool_out        \* Output[of][tr][tc]

poolVars == <<pool_pc, pool_mode, pool_image, pool_Input_w, pool_Input_h, pool_Coffset,
              pool_Roffset, pool_TN_Enable, pool_ibuf, pool_tmp, pool_tap, pool_out>>

VARIABLES
    \* ---- DMA buffer manager (dma_buffer_manager.c) ----
    dma_ctx_buffers,   \* dma_ctx.buffers[0 .. count-1]
    mem_ctx_buffers,   \* mem_ctx.buffers[0 .. count-1]
    mem_ctx_dma,       \* mem_ctx.dma_buffers[0 .. count-1]
    mem_live,          \* ghost: the memory_buffer_t values callers hold
    mem_last,          \* the last call and how it ended
    mem_freed,         \* ghost: some block has been freed
    lookup_p,          \* argument of the last memory_get_phys_addr
    lookup_ret         \* its return value

memVars == <<dma_ctx_buffers, mem_ctx_buffers, mem_ctx_dma, mem_live, mem_last, mem_freed,
             lookup_p, lookup_ret>>

VARIABLES
    \* ---- convolution kernel: weight/bias load and compute (INT16_MODE) ----
    kn_pc,          \* "off", "idle", "tile", "n_loop", "write"
    kn_layers,      \* number of layers (YOLO2_FPGA calls) run
    kn_job,         \* the arguments of the current call and its Q values
    kn_m,           \* output-channel offset of the current tile (TMP_M)
    kn_n, kn_pingpong, kn_n0, kn_n1,   \* locals of the n loop
    kn_beta,        \* beta_buffer[]
    kn_lbeta,       \* local_beta_buffer[tm]
    kn_wbuf,        \* weight_buffer0 / weight_buffer1 [tm][tn][i][j]
    kn_ibuf,        \* input_buffer0 / input_buffer1 [tn]
    kn_obuf,        \* output_buffer / output_buffer1 [tm]
    kn_osel,        \* which output buffer the wrapper was handed
    kn_loaded,      \* the weight buffer filled by the last iteration, or -1
    kn_store        \* ghost: the values the last write-back stored, by channel

kernVars == <<kn_pc, kn_layers, kn_job, kn_m, kn_n, kn_pingpong, kn_n0, kn_n1, kn_beta,
              kn_lbeta, kn_wbuf, kn_ibuf, kn_obuf, kn_osel, kn_loaded, kn_store>>

VARIABLES
    \* ---- the fixed-point rescale sites ----
    sh_pc,          \* "in", "done"
    sh_site,        \* which site runs
    sh_q,           \* the Q values the site is handed
    sh_v,           \* the operand
    sh_dir,         \* "none", "right", "left": the shift that was executed
    sh_amount,      \* the amount it was executed with
    sh_out          \* the int16 result

shiftVars == <<sh_pc, sh_site, sh_q, sh_v, sh_dir, sh_amount, sh_out>>

VARIABLES
    \* ---- tile loops of one accelerator run (YOLO2_FPGA on the device) ----
    tl_pc,          \* "idle" before ap_start, loop position while running, "done" = back to IDLE
    tl_job,         \* the register values of the run
    tl_r, tl_c, tl_m, tl_n,     \* loop variables r, c, m of YOLO2_FPGA and n of the wrapper
    tl_pingpongm,   \* pingpongm of YOLO2_FPGA
    tl_pingpong     \* pingpong of intra_pingpong_wrapper

loopVars == <<tl_pc, tl_job, tl_r, tl_c, tl_m, tl_n, tl_pingpongm, tl_pingpong>>

VARIABLES
    \* ---- dma_buffer_alloc / dma_buffer_free / dma_buffer_cleanup used directly ----
    dc_buffers,     \* dma_ctx.buffers[0 .. count-1]
    dc_open,        \* ghost: the blocks that are mapped and whose fd is open
    dc_before,      \* ghost: the blocks tracked when the last cleanup began
    dc_last         \* the last call made

dmaVars == <<dc_buffers, dc_open, dc_before, dc_last>>

VARIABLES
    \* ---- MJPEG streamer (yolo2_mjpeg_streamer.c): the caller and the streaming thread ----
    strm,           \* struct yolo2_mjpeg_streamer: mu, stop, started, rgb, rgb_cap, width, height, has_frame
    caller,         \* the thread that calls start, update_rgb24 and stop: position, locals, results
    thread,         \* stream_thread: position and locals
    sghost          \* ghost: writes in progress, what was sent, order of free and exit

streamVars == <<strm, caller, thread, sghost>>

vars == <<schedVars, planVars, seqVars, drvVars, cacheVars, rescaleVars, poolVars, memVars, kernVars, shiftVars, loopVars, dmaVars, streamVars>>
\* what a component leaves alone: the variables of the other components
notSched == <<planVars, seqVars, drvVars, cacheVars, rescaleVars, poolVars, memVars, kernVars, shiftVars, loopVars, dmaVars, streamVars>>
notPlan == <<schedVars, seqVars, drvVars, cacheVars, rescaleVars, poolVars, memVars, kernVars, shiftVars, loopVars, dmaVars, streamVars>>
notSeq == <<schedVars, planVars, drvVars, cacheVars, rescaleVars, poolVars, memVars, kernVars, shiftVars, loopVars, dmaVars, streamVars>>
notDrv == <<schedVars, planVars, seqVars, cacheVars, rescaleVars, poolVars, memVars, kernVars, shiftVars, loopVars, dmaVars, streamVars>>
\* the cache component runs the planner, so it leaves alone only these
notCache == <<schedVars, seqVars, drvVars, rescaleVars, poolVars, memVars, kernVars, shiftVars, loopVars, dmaVars, streamVars>>

----------------------------------------------------------------------------
\* Layer descriptors handed to the sequencer (square planes).
ConvLayers ==
    { [type |-> CONVOLUTIONAL, c |-> ch, n |-> f, w |-> p, h |-> p,
       size |-> sz, stride |-> 1, pad |-> sz \div 2, out_w |-> p, out_h |-> p] :
         ch \in 1..MaxChannels, f \in 1..MaxFilters, p \in 1..MaxPlane, sz \in {1} }

PoolLayers ==
    { [type |-> MAXPOOL, c |-> ch, n |-> ch, w |-> 2 * p, h |-> 2 * p,
       size |-> 2, stride |-> 2, pad |-> 0, out_w |-> p, out_h |-> p] :
         ch \in 1..MaxFilters, p \in 1..MaxPlane }

\* Loop bounds the sequencer computes for a convolution layer.
ConvBound_NoDrain(mLoops, TM) == mLoops * TM
ConvBound(mLoops, TM) == (mLoops + 1) * TM
\* Loop bounds the sequencer computes for a max-pool layer.
PoolBound(mLoops, TM) == (mLoops + 2) * TM

\* case CONVOLUTIONAL of the sequencer: tile geometry and the YOLO2_FPGA arguments
ConvJob(l) ==
    LET output_w == (l.w - l.size + 2 * l.pad) \div l.stride + 1
        output_h == (l.h - l.size + 2 * l.pad) \div l.stride + 1
        TR == MIN(output_h, MIN((OnChipIB_Height - l.size) \div l.stride + 1, Tr))
        TC == MIN(output_w, MIN((OnChipIB_Width - l.size) \div l.stride + 1, Tc))
        TM == MIN(l.n, Tm)
        TN == MIN(l.c, Tn)
        mLoops == CeilDiv(l.n, TM)
    IN [IFM_num |-> l.c, OFM_num |-> l.n, Ksize |-> l.size, Kstride |-> l.stride,
        Output_w |-> output_w, Output_h |-> output_h,
        TM |-> TM, TN |-> TN, TR |-> TR, TC |-> TC,
        OFM_num_bound |-> ConvBound(mLoops, TM), mLoopsxTM |-> mLoops * TM,
        mLoops_a1xTM |-> (mLoops + 1) * TM, LayerType |-> 0]

\* case MAXPOOL of the sequencer
PoolJob(l) ==
    LET output_w == l.out_w
        output_h == l.out_h
        TR == MIN(output_h, MIN((OnChipIB_Height - l.size) \div l.stride + 1, Tr))
        TC == MIN(output_w, MIN((OnChipIB_Width - l.size) \div l.stride + 1, Tc))
        TM == MIN(l.c, MIN(Tm, Tn))
        mLoops == CeilDiv(l.c, TM)
    IN [IFM_num |-> l.c, OFM_num |-> l.c, Ksize |-> l.size, Kstride |-> l.stride,
        Output_w |-> output_w, Output_h |-> output_h,
        TM |-> TM, TN |-> 0, TR |-> TR, TC |-> TC,
        OFM_num_bound |-> PoolBound(mLoops, TM), mLoopsxTM |-> mLoops * TM,
        mLoops_a1xTM |-> (mLoops + 1) * TM, LayerType |-> 1]

SeqJob(l) == IF l.type = CONVOLUTIONAL THEN ConvJob(l) ELSE PoolJob(l)

NoJob == [IFM_num |-> 0, OFM_num |-> 0, Ksize |-> 0, Kstride |-> 0,
          Output_w |-> 0, Output_h |-> 0, TM |-> 0, TN |-> 0, TR |-> 0, TC |-> 0,
          OFM_num_bound |-> 0, mLoopsxTM |-> 0, mLoops_a1xTM |-> 0, LayerType |-> 0]

----------------------------------------------------------------------------
\* What an on-chip buffer holds.
\* input tile: which call, spatial tile, channel offset and channel count was loaded
NoInput == [lid |-> 0, r |-> -1, c |-> -1, x |-> -1, sz |-> -1]
\* weight tile: which call, output-channel offset and input-channel offset was loaded
NoWeight == [lid |-> 0, m |-> -1, n |-> -1]
\* output tile: the bias block it started from and the (weight, input) tiles reduced into it
NoOutput == [beta |-> [lid |-> 0, m |-> -1, sz |-> -1], terms |-> {}]
NoCall == [on |-> FALSE]

\* Values an uninitialised int local can be found to hold.
Garbage == {0, 1}

\* Event counters keyed by <<output-channel offset, input-channel offset>>.
NoCnt == [k \in {} |-> 0]
Count(f, k) == IF k \in DOMAIN f THEN f[k] ELSE 0
Bump(f, k) == IF k \in DOMAIN f THEN [f EXCEPT ![k] = @ + 1] ELSE f @@ (k :> 1)

----------------------------------------------------------------------------
\* YOLO2_FPGA: per-iteration tile size and pipeline enable flags.
TM_MIN == MIN(job.TM, job.OFM_num - m)
Mne0 == (m # 0)
Mne1 == (m # job.TM)
MnemLps == (m # job.mLoopsxTM)
MneMLps_a1 == (m # job.mLoops_a1xTM)
input_flag == IF job.LayerType # 0 THEN MnemLps /\ MneMLps_a1 ELSE MnemLps
process_flag == IF job.LayerType # 0 THEN Mne0 /\ MneMLps_a1 ELSE MnemLps
write_flag_NoMne1 == Mne0
write_flag == IF job.LayerType # 0 THEN Mne0 /\ Mne1 ELSE Mne0

\* Buffer instances selected by the ping-pong flags.
\* index 0 = input_buffer0 / weight_buffer0 / output_buffer, index 1 = the "1" instance
ConvLoadSel(pp) == IF pp = 1 THEN 1 ELSE 0
ConvComputeSel(pp) == IF pp = 1 THEN 0 ELSE 1
PoolLoadSel(ppx) == IF ppx = 0 THEN 0 ELSE 1
PoolProcessSel_Same(ppx) == IF ppx = 0 THEN 0 ELSE 1
PoolProcessSel(ppx) == IF ppx = 0 THEN 1 ELSE 0
\* output buffer handed to intra_pingpong_wrapper, and the one handed to write_back
WrapperOutSel(ppm) == IF ppm = 0 THEN 1 ELSE 0
WriteOutSel(ppm) == IF ppm = 0 THEN 0 ELSE 1

\* Linux driver (yolo2_accel_linux.c) and the accelerator's control interface.
MaxJobs == 2
\* iterations of the "leave IDLE" polling loop of wait_for_idle (100 in the code)
MaxPolls == 2

\* AP_CTRL as the driver sees it
StatusWord == [START |-> ap_start, DONE |-> ap_done, IDLE |-> ~dev_running,
               READY |-> ap_ready]
NoStatus == [START |-> FALSE, DONE |-> FALSE, IDLE |-> FALSE, READY |-> FALSE]

\* Arguments of yolo2_execute_conv_layer / yolo2_execute_maxpool_layer.
GoodConv == [kind |-> CONVOLUTIONAL, ifm_num |-> 3, ofm_num |-> 32, ksize |-> K,
             kstride |-> 1, input_w |-> 416, input_h |-> 416, output_w |-> 416,
             output_h |-> 416, padding |-> 1, tm |-> Tm, tn |-> Tn, tr |-> Tr,
             tc |-> Tc, qs |-> <<11, 1, 2, 7>>]
GoodPool == [kind |-> MAXPOOL, ifm_num |-> 32, ofm_num |-> 32, ksize |-> 2,
             kstride |-> S, input_w |-> 416, input_h |-> 416, output_w |-> 208,
             output_h |-> 208, padding |-> 0, tm |-> MIN(Tm, Tn), tn |-> 0, tr |-> Tr,
             tc |-> Tc, qs |-> <<0, 0, 0, 0>>]
Variants(j) ==
    {j, [j EXCEPT !.tm = Tm + 1], [j EXCEPT !.ksize = K + 1], [j EXCEPT !.output_w = 1025]}
DrvJobs == Variants(GoodConv) \cup Variants(GoodPool)
               \cup {[GoodConv EXCEPT !.tc = Tc + 1], [GoodConv EXCEPT !.qs = <<0, 0, 0, 0>>]}
NoDrvJob == [GoodPool EXCEPT !.kind = "none"]

\* validate_conv_params
validate_conv_params(j) ==
    ~ \/ j.ifm_num <= 0 \/ j.ifm_num > 2048
      \/ j.ofm_num <= 0 \/ j.ofm_num > 2048
      \/ j.ksize <= 0 \/ j.ksize > K
      \/ j.kstride <= 0 \/ j.kstride > S
      \/ j.input_w <= 0 \/ j.input_w > 1024
      \/ j.input_h <= 0 \/ j.input_h > 1024
      \/ j.output_w <= 0 \/ j.output_w > 1024
      \/ j.output_h <= 0 \/ j.output_h > 1024
      \/ j.padding < 0 \/ j.padding > 4
      \/ j.tm <= 0 \/ j.tm > Tm
      \/ j.tn < 0 \/ j.tn > Tn
      \/ j.tr <= 0 \/ j.tr > Tr
      \/ j.tc <= 0 \/ j.tc > Tc
\* the parameter test made before a job of this kind is sent to the device
ParamsChecked(j) == IF j.kind = CONVOLUTIONAL THEN validate_conv_params(j) ELSE TRUE
\* yolo2_is_busy on a status word
IsBusy(st) == IF st.DONE THEN 0 ELSE 1

DrvIdle ==
    /\ initialized = FALSE /\ ap_start = FALSE /\ ap_done = FALSE /\ ap_ready = FALSE
    /\ dev_running = FALSE /\ ready_cor = FALSE
    /\ drv_pc = "idle" /\ drv_job = NoDrvJob /\ status = NoStatus
    /\ was_running = FALSE /\ poll_i = 0 /\ wait_ret = "none" /\ drv_result = "none"
    /\ call_writes = {} /\ jobs_called = 0 /\ start_writes = 0 /\ ends_at_start = 0
    /\ dev_begins = 0 /\ dev_ends = 0 /\ busy_ret = -1 /\ busy_truth = FALSE
    /\ q_gpio = <<0, 0, 0, 0>> /\ ctrl_params = NoDrvJob

\* DMA-visible memory as the orchestrator and the device see it.  A range is
\* [lo, hi) in elements of one of the three DMA blocks.
Range(buf, lo, len) == [buf |-> buf, lo |-> lo, hi |-> lo + len]
Overlaps(a, b) == a.buf = b.buf /\ a.lo < b.hi /\ b.lo < a.hi
Touched(D, rs) == {d \in D : \E x \in rs : Overlaps(d, x)}
\* memory_flush_cache(addr, size): a barrier on the uncached mapping; the model
\* credits the call only to the CPU-written buffers its range designates
memory_flush_cache_None(D, rg) == D
memory_flush_cache(D, rg) == {d \in D : ~Overlaps(d, rg)}
\* memory_invalidate_cache(addr, size), credited likewise
memory_invalidate_cache_None(St, rg) == St
memory_invalidate_cache(St, rg) == {d \in St : ~Overlaps(d, rg)}

CacheIdle ==
    /\ cache_pc = "off" /\ cache_i = 0 /\ cache_runs = 0
    /\ dirty = {} /\ stale = {} /\ dev_reads = {} /\ dev_read_dirty = {}
    /\ cpu_reads = {} /\ cpu_read_stale = {}

notRescale == <<schedVars, planVars, seqVars, drvVars, cacheVars, poolVars, memVars, kernVars, shiftVars, loopVars, dmaVars, streamVars>>
RescaleIdle ==
    /\ rs_pc = "off" /\ rs_mode = "INT16" /\ rs_v = 0 /\ rs_s = 0
    /\ rs_mid = 0 /\ rs_out = 0

notPool == <<schedVars, planVars, seqVars, drvVars, cacheVars, rescaleVars, memVars, kernVars, shiftVars, loopVars, dmaVars, streamVars>>
\* Output[of][tr][tc] and tmp[of] before the kernel has written them
Unwritten == "unwritten"
PoolIdle ==
    /\ pool_pc = "off" /\ pool_mode = "INT16" /\ pool_image = <<>>
    /\ pool_Input_w = 0 /\ pool_Input_h = 0 /\ pool_Coffset = 0 /\ pool_Roffset = 0
    /\ pool_TN_Enable = FALSE /\ pool_ibuf = <<>> /\ pool_tmp = Unwritten
    /\ pool_tap = 0 /\ pool_out = Unwritten

notMem == <<schedVars, planVars, seqVars, drvVars, cacheVars, rescaleVars, poolVars, kernVars, shiftVars, loopVars, dmaVars, streamVars>>
MemIdle ==
    /\ dma_ctx_buffers = <<>> /\ mem_ctx_buffers = <<>> /\ mem_ctx_dma = <<>>
    /\ mem_live = {} /\ mem_last = "off" /\ mem_freed = FALSE
    /\ lookup_p = 0 /\ lookup_ret = 0

notKern == <<schedVars, planVars, seqVars, drvVars, cacheVars, rescaleVars, poolVars, memVars, shiftVars, loopVars, dmaVars, streamVars>>
\* longest bias vector of the kernel model
MaxBeta == MaxFilters
\* What the kernel's on-chip arrays hold.  Statics start zeroed.
\* a weight: the layer, tile offsets and position it was loaded for
ZeroW == [lid |-> 0, m |-> 0, n |-> 0, t1 |-> 0, t2 |-> 0, t3 |-> 0, t4 |-> 0]
\* an input value: the layer and input channel it was loaded from (0 also is pad_value)
ZeroI == [lid |-> 0, ch |-> 0]
\* a bias: the layer and output channel it belongs to
ZeroB == [lid |-> 0, ch |-> 0]
\* an output value: the rescaled bias it started from and the products added to it
ZeroO == [bias |-> [src |-> ZeroB, shift |-> 0], terms |-> {}, twice |-> FALSE]
NoKernJob == [IFM_num |-> 0, OFM_num |-> 0, Ksize |-> 0, TM |-> 0, TN |-> 0, Qb |-> 0, Qa_out |-> 0]
KernZeroed ==
    /\ kn_beta = [ch \in 0..(MaxBeta - 1) |-> ZeroB]
    /\ kn_lbeta = [tm \in 0..(Tm - 1) |-> ZeroB]
    /\ kn_wbuf = [b \in 0..1 |-> [tm \in 0..(Tm - 1) |-> [tn \in 0..(Tn - 1) |->
                     [i \in 0..(K - 1) |-> [j \in 0..(K - 1) |-> ZeroW]]]]]
    /\ kn_ibuf = [b \in 0..1 |-> [tn \in 0..(Tn - 1) |-> ZeroI]]
    /\ kn_obuf = [b \in 0..1 |-> [tm \in 0..(Tm - 1) |-> ZeroO]]
KernIdle ==
    /\ kn_pc = "off" /\ kn_layers = 0 /\ kn_job = NoKernJob /\ kn_m = 0
    /\ kn_n = 0 /\ kn_pingpong = 0 /\ kn_n0 = 0 /\ kn_n1 = 0
    /\ kn_osel = 0 /\ kn_loaded = -1 /\ kn_store = <<>>
    /\ KernZeroed

notShift == <<schedVars, planVars, seqVars, drvVars, cacheVars, rescaleVars, poolVars, memVars, kernVars, loopVars, dmaVars, streamVars>>
NoSiteQ == [Qw |-> 0, Qa_in |-> 0, Qa_out |-> 0, Qb |-> 0, current_Qa |-> 0, route24_q |-> 0]
ShiftIdle ==
    /\ sh_pc = "off" /\ sh_site = "none" /\ sh_q = NoSiteQ /\ sh_v = 0
    /\ sh_dir = "none" /\ sh_amount = 0 /\ sh_out = 0

notLoop == <<schedVars, planVars, seqVars, drvVars, cacheVars, rescaleVars, poolVars, memVars, kernVars, shiftVars, dmaVars, streamVars>>
NoLoopJob == [GoodConv EXCEPT !.kind = "none"]
\* the device before any run
LoopIdle ==
    /\ tl_pc = "idle" /\ tl_job = NoLoopJob
    /\ tl_r = 0 /\ tl_c = 0 /\ tl_m = 0 /\ tl_n = 0 /\ tl_pingpongm = 0 /\ tl_pingpong = 0

notDma == <<schedVars, planVars, seqVars, drvVars, cacheVars, rescaleVars, poolVars, memVars, kernVars, shiftVars, loopVars, streamVars>>
\* the tracking table before any allocation
DmaIdle == dc_buffers = <<>> /\ dc_open = {} /\ dc_before = {} /\ dc_last = "none"

notStream == <<schedVars, planVars, seqVars, drvVars, cacheVars, rescaleVars, poolVars, memVars, kernVars, shiftVars, loopVars, dmaVars>>
\* no frame bytes / bytes of a frame that is half written
NoData == [w |-> 0, h |-> 0, seq |-> 0]
Torn == [w |-> -1, h |-> -1, seq |-> -1]
NoSent == [data |-> NoData, w |-> 0, h |-> 0, bytes |-> 0]
\* calloc(1, sizeof(*s)) and the fields set before pthread_create
NewStreamer == [alive |-> TRUE, mu |-> "free", stop |-> 0, started |-> 0, listen |-> FALSE,
                rgb |-> NoData, rgb_cap |-> 0, width |-> 0, height |-> 0, has_frame |-> 0]
NoStreamer == [NewStreamer EXCEPT !.alive = FALSE]
CallerIdle == [pc |-> "idle", returned |-> FALSE, ret |-> 0, out |-> "NULL", started |-> 0,
               woken |-> FALSE, from |-> "none", upd |-> NoData, updates |-> 0]
ThreadNone == [pc |-> "none", ok |-> FALSE, reported |-> FALSE, stop |-> 0, has_frame |-> 0,
               w |-> 0, h |-> 0, bytes |-> 0, local |-> NoData, local_cap |-> 0,
               local_w |-> 0, local_h |-> 0, local_has |-> 0, copied |-> 0]
GhostIdle == [busy |-> FALSE, racy |-> FALSE, sent |-> NoSent, early_free |-> FALSE, spur |-> 0]
\* before yolo2_mjpeg_streamer_start is called
StreamIdle == strm = NoStreamer /\ caller = CallerIdle /\ thread = ThreadNone /\ sghost = GhostIdle

INT16 == "INT16"
FP32 == "FP32"
\* pending_route_q = -1: no pending Q
NoPending == -1
NoJobRec == [layer |-> -1, k |-> -1, Qw |-> 0, Qa_in |-> 0, Qa_out |-> 0, Qb |-> 0,
             woffset |-> 0, boffset |-> 0, pend |-> NoPending]

\* the sequencer at rest, before any context exists
SeqIdle ==
    /\ impl = "none" /\ precision = INT16
    /\ weight_q = <<>> /\ bias_q = <<>> /\ act_q = <<>>
    /\ offset_index = 0 /\ woffset = 0 /\ boffset = 0
    /\ current_Qa = 0 /\ route24_q = 0 /\ pending_route_q = NoPending
    /\ seq_pc = "off" /\ layer_i = 0 /\ seq_rc = 0 /\ runs = 0 /\ prev_end = "none"
    /\ gpio = <<0, 0, 0, 0>> /\ starts = <<>> /\ failed_at = -1 /\ backend_result = "none"
    /\ lastJob = NoJobRec /\ stored = <<>>

\* the scheduler at rest, before any layer job was dispatched
SchedIdle ==
    /\ pc = "idle" /\ calls = 0 /\ job = NoJob
    /\ r = 0 /\ c = 0 /\ m = 0 /\ TR_MIN = 0 /\ TC_MIN = 0 /\ pingpongm = 0
    /\ m0 = 0 /\ m1 = 0 /\ TM_MIN0 = 0 /\ TM_MIN1 = 0
    /\ tmp_x = 0 /\ tmp_tx_min = 0
    /\ n = 0 /\ pingpong = 0 /\ n0 = 0 /\ n1 = 0
    /\ input_buffer = [i \in 0..1 |-> NoInput]
    /\ weight_buffer = [i \in 0..1 |-> NoWeight]
    /\ output_buffer = [i \in 0..1 |-> NoOutput]
    /\ local_beta_buffer = NoOutput.beta
    /\ ldCnt = NoCnt /\ prCnt = NoCnt /\ wrCnt = NoCnt
    /\ lastLoad = NoCall /\ lastProc = NoCall /\ lastWrite = NoCall

PlanIdle ==
    /\ net = <<>> /\ in_ptr = <<>> /\ out_ptr = <<>>
    /\ plan_pc = "off" /\ plan_x = 0 /\ plan_rc = 0 /\ exec_i = 0

SchedInit ==
    /\ PlanIdle /\ SeqIdle /\ DrvIdle /\ CacheIdle /\ RescaleIdle /\ PoolIdle /\ MemIdle /\ KernIdle /\ ShiftIdle /\ LoopIdle /\ DmaIdle /\ StreamIdle
    /\ pc = "idle" /\ calls = 0 /\ job = NoJob
    /\ r = 0 /\ c = 0 /\ m = 0 /\ TR_MIN = 0 /\ TC_MIN = 0 /\ pingpongm = 0
    /\ m0 = 0 /\ m1 = 0 /\ TM_MIN0 = 0 /\ TM_MIN1 = 0
    /\ tmp_x = 0 /\ tmp_tx_min = 0
    /\ n = 0 /\ pingpong = 0 /\ n0 = 0 /\ n1 = 0
    /\ input_buffer = [i \in 0..1 |-> NoInput]
    /\ weight_buffer = [i \in 0..1 |-> NoWeight]
    /\ output_buffer = [i \in 0..1 |-> NoOutput]
    /\ local_beta_buffer = NoOutput.beta
    /\ ldCnt = NoCnt /\ prCnt = NoCnt /\ wrCnt = NoCnt
    /\ lastLoad = NoCall /\ lastProc = NoCall /\ lastWrite = NoCall

\* The sequencer dispatches a layer: entry of YOLO2_FPGA.  The index holders are
\* uninitialised locals; the on-chip buffers and the wrapper's statics persist.
Dispatch ==
    /\ pc = "idle" /\ calls < MaxCalls
    /\ \E l \in ConvLayers \cup PoolLayers : job' = SeqJob(l)
    /\ \E g0 \in Garbage, g1 \in Garbage :
          m0' = g0 /\ TM_MIN0' = g0 /\ m1' = g1 /\ TM_MIN1' = g1
    /\ calls' = calls + 1 /\ r' = 0 /\ pc' = "r_loop"
    /\ ldCnt' = NoCnt /\ prCnt' = NoCnt /\ wrCnt' = NoCnt
    /\ lastLoad' = NoCall /\ lastProc' = NoCall /\ lastWrite' = NoCall
    /\ UNCHANGED <<c, m, TR_MIN, TC_MIN, pingpongm, tmp_x, tmp_tx_min, n, pingpong, n0, n1,
                   input_buffer, weight_buffer, output_buffer, local_beta_buffer>>
    /\ UNCHANGED notSched

\* for(r = 0; r < Output_h; r += TR)
RowLoop ==
    /\ pc = "r_loop"
    /\ IF r < job.Output_h
         THEN TR_MIN' = MIN(job.TR, job.Output_h - r) /\ c' = 0 /\ pc' = "c_loop"
         ELSE pc' = "idle" /\ UNCHANGED <<TR_MIN, c>>
    /\ UNCHANGED <<calls, job, r, m, TC_MIN, pingpongm, m0, m1, TM_MIN0, TM_MIN1, tmp_x,
                   tmp_tx_min, n, pingpong, n0, n1, input_buffer, weight_buffer, output_buffer,
                   local_beta_buffer, ldCnt, prCnt, wrCnt, lastLoad, lastProc, lastWrite>>
    /\ UNCHANGED notSched

\* for(c = 0; c < Output_w; c += TC) { ...; pingpongm = 0; m = 0
ColLoop ==
    /\ pc = "c_loop"
    /\ IF c < job.Output_w
         THEN /\ TC_MIN' = MIN(job.TC, job.Output_w - c) /\ pingpongm' = 0 /\ m' = 0
              /\ pc' = "m_loop" /\ r' = r
              /\ ldCnt' = NoCnt /\ prCnt' = NoCnt /\ wrCnt' = NoCnt
              /\ lastLoad' = NoCall /\ lastProc' = NoCall /\ lastWrite' = NoCall
         ELSE /\ r' = r + job.TR /\ pc' = "r_loop"
              /\ UNCHANGED <<TC_MIN, pingpongm, m, ldCnt, prCnt, wrCnt,
                             lastLoad, lastProc, lastWrite>>
    /\ UNCHANGED <<calls, job, c, TR_MIN, m0, m1, TM_MIN0, TM_MIN1, tmp_x, tmp_tx_min,
                   n, pingpong, n0, n1, input_buffer, weight_buffer, output_buffer,
                   local_beta_buffer>>
    /\ UNCHANGED notSched

\* for(m = 0; m < OFM_num_bound; m += TM): loop test, and c += TC on exit
ChanLoop ==
    /\ pc \in {"m_loop", "tile_done"}
    /\ IF pc = "m_loop"
         THEN pc' = (IF m < job.OFM_num_bound THEN "wrapper" ELSE "tile_done") /\ c' = c
         ELSE c' = c + job.TC /\ pc' = "c_loop"
    /\ UNCHANGED <<calls, job, r, m, TR_MIN, TC_MIN, pingpongm, m0, m1, TM_MIN0, TM_MIN1,
                   tmp_x, tmp_tx_min, n, pingpong, n0, n1, input_buffer, weight_buffer,
                   output_buffer, local_beta_buffer, ldCnt, prCnt, wrCnt,
                   lastLoad, lastProc, lastWrite>>
    /\ UNCHANGED notSched

\* intra_pingpong_wrapper, LayerType==0: entry of the convolution branch.
\* Returns at once when input_flag is off (the drain iteration); otherwise publishes
\* the tile index and size to the holders of the caller and starts the n loop.
ConvEnter ==
    /\ pc = "wrapper" /\ job.LayerType = 0
    /\ IF ~input_flag
         THEN /\ pc' = "write"
              /\ UNCHANGED <<m0, m1, TM_MIN0, TM_MIN1, n, pingpong, n0, n1>>
         ELSE /\ IF pingpongm = 0
                   THEN m1' = m /\ TM_MIN1' = TM_MIN /\ UNCHANGED <<m0, TM_MIN0>>
                   ELSE m0' = m /\ TM_MIN0' = TM_MIN /\ UNCHANGED <<m1, TM_MIN1>>
              /\ pingpong' = 0 /\ n' = 0
              /\ \E g0 \in Garbage, g1 \in Garbage : n0' = g0 /\ n1' = g1
              /\ pc' = "n_loop"
    /\ lastLoad' = NoCall /\ lastProc' = NoCall
    /\ UNCHANGED <<calls, job, r, c, m, TR_MIN, TC_MIN, pingpongm, tmp_x, tmp_tx_min,
                   input_buffer, weight_buffer, output_buffer, local_beta_buffer,
                   ldCnt, prCnt, wrCnt, lastWrite>>
    /\ UNCHANGED notSched

\* One iteration of for(n = 0; n < IFM_num+TN; n += TN): copy_input_weight into one
\* buffer instance, then compute on the other one.
ConvIter ==
    /\ pc = "n_loop" /\ job.LayerType = 0
    /\ IF n < job.IFM_num + job.TN
         THEN LET ld == ConvLoadSel(pingpong)
                  cp == ConvComputeSel(pingpong)
                  ob == WrapperOutSel(pingpongm)
                  ldEn == n < job.IFM_num
                  cpEn == n # 0
                  TN_MIN == MIN(job.TN, job.IFM_num - n)
                  \* copy_input_weight: n_next[0] = n; input_load; weight_load_reorg
                  ib == IF ldEn
                          THEN [input_buffer EXCEPT ![ld] =
                                  [lid |-> calls, r |-> r, c |-> c, x |-> n, sz |-> TN_MIN]]
                          ELSE input_buffer
                  wbuf == IF ldEn
                            THEN [weight_buffer EXCEPT ![ld] = [lid |-> calls, m |-> m, n |-> n]]
                            ELSE weight_buffer
                  h0 == IF ldEn /\ ld = 0 THEN n ELSE n0
                  h1 == IF ldEn /\ ld = 1 THEN n ELSE n1
                  \* compute: const int n = n_next[0]
                  nh == IF cp = 0 THEN h0 ELSE h1
                  term == [w |-> wbuf[cp], i |-> ib[cp]]
              IN  /\ input_buffer' = ib /\ weight_buffer' = wbuf /\ n0' = h0 /\ n1' = h1
                  /\ lastLoad' = IF ldEn THEN [on |-> TRUE, sel |-> ld, x |-> n] ELSE NoCall
                  /\ ldCnt' = IF ldEn THEN Bump(ldCnt, <<m, n>>) ELSE ldCnt
                  /\ IF cpEn
                       THEN /\ output_buffer' = [output_buffer EXCEPT ![ob] =
                                   IF nh = 0
                                     THEN [beta |-> local_beta_buffer, terms |-> {term}]
                                     ELSE [beta |-> @.beta, terms |-> @.terms \cup {term}]]
                            /\ lastProc' = [on |-> TRUE, sel |-> cp, in |-> ib[cp],
                                            w |-> wbuf[cp], x |-> nh, m |-> m, sz |-> TM_MIN,
                                            at |-> <<calls, r, c>>]
                            /\ prCnt' = Bump(prCnt, <<m, nh>>)
                            /\ UNCHANGED local_beta_buffer
                       ELSE /\ local_beta_buffer' = [lid |-> calls, m |-> m, sz |-> TM_MIN]
                            /\ lastProc' = NoCall
                            /\ UNCHANGED <<output_buffer, prCnt>>
                  /\ pingpong' = 1 - pingpong /\ n' = n + job.TN /\ pc' = pc
         ELSE /\ pc' = "write"
              /\ UNCHANGED <<n, pingpong, n0, n1, input_buffer, weight_buffer, output_buffer,
                             local_beta_buffer, ldCnt, prCnt, lastLoad, lastProc>>
    /\ UNCHANGED <<calls, job, r, c, m, TR_MIN, TC_MIN, pingpongm, m0, m1, TM_MIN0, TM_MIN1,
                   tmp_x, tmp_tx_min, wrCnt, lastWrite>>
    /\ UNCHANGED notSched

\* intra_pingpong_wrapper, LayerType==1: hand the previous tile's index and size to
\* the caller's holders, remember this one, load this tile into one input buffer
\* and pool the other input buffer into the output buffer.
PoolStep ==
    /\ pc = "wrapper" /\ job.LayerType = 1
    /\ LET ld == PoolLoadSel(pingpongm)
           cp == PoolProcessSel(pingpongm)
           ob == WrapperOutSel(pingpongm)
           TMP_X_next == tmp_x
           TX_MIN_next == tmp_tx_min
           TN_MIN == MIN(job.TM, job.IFM_num - m)
           ib == IF input_flag
                   THEN [input_buffer EXCEPT ![ld] =
                           [lid |-> calls, r |-> r, c |-> c, x |-> m, sz |-> TN_MIN]]
                   ELSE input_buffer
       IN  /\ IF pingpongm = 0
                THEN m1' = TMP_X_next /\ TM_MIN1' = TX_MIN_next /\ UNCHANGED <<m0, TM_MIN0>>
                ELSE m0' = TMP_X_next /\ TM_MIN0' = TX_MIN_next /\ UNCHANGED <<m1, TM_MIN1>>
           /\ tmp_x' = m /\ tmp_tx_min' = TM_MIN
           /\ input_buffer' = ib
           /\ lastLoad' = IF input_flag THEN [on |-> TRUE, sel |-> ld, x |-> m] ELSE NoCall
           /\ ldCnt' = IF input_flag THEN Bump(ldCnt, <<m, 0>>) ELSE ldCnt
           /\ IF process_flag
                THEN /\ output_buffer' = [output_buffer EXCEPT ![ob] =
                            [beta |-> [lid |-> 0, m |-> -1, sz |-> TX_MIN_next],
                             terms |-> {[w |-> NoWeight, i |-> ib[cp]]}]]
                     /\ lastProc' = [on |-> TRUE, sel |-> cp, in |-> ib[cp], w |-> NoWeight,
                                     x |-> TMP_X_next, m |-> TMP_X_next, sz |-> TX_MIN_next,
                                     at |-> <<calls, r, c>>]
                     /\ prCnt' = Bump(prCnt, <<TMP_X_next, 0>>)
                ELSE lastProc' = NoCall /\ UNCHANGED <<output_buffer, prCnt>>
    /\ pc' = "write"
    /\ UNCHANGED <<calls, job, r, c, m, TR_MIN, TC_MIN, pingpongm, n, pingpong, n0, n1,
                   weight_buffer, local_beta_buffer, wrCnt, lastWrite>>
    /\ UNCHANGED notSched

\* write_back_output_reorg on the other output buffer with the other holders,
\* then the ping-pong flip and m += TM.
WriteBack ==
    /\ pc = "write"
    /\ LET wb == WriteOutSel(pingpongm)
           mh == IF pingpongm = 0 THEN m0 ELSE m1
           th == IF pingpongm = 0 THEN TM_MIN0 ELSE TM_MIN1
       IN  IF write_flag
             THEN /\ lastWrite' = [on |-> TRUE, sel |-> wb, buf |-> output_buffer[wb],
                                   m |-> mh, sz |-> th, at |-> <<calls, r, c>>]
                  /\ wrCnt' = Bump(wrCnt, <<mh, 0>>)
             ELSE lastWrite' = NoCall /\ wrCnt' = wrCnt
    /\ pingpongm' = 1 - pingpongm /\ m' = m + job.TM /\ pc' = "m_loop"
    /\ UNCHANGED <<calls, job, r, c, TR_MIN, TC_MIN, m0, m1, TM_MIN0, TM_MIN1, tmp_x,
                   tmp_tx_min, n, pingpong, n0, n1, input_buffer, weight_buffer, output_buffer,
                   local_beta_buffer, ldCnt, prCnt, lastLoad, lastProc>>
    /\ UNCHANGED notSched

SchedNext == Dispatch \/ RowLoop \/ ColLoop \/ ChanLoop \/ ConvEnter \/ ConvIter
             \/ PoolStep \/ WriteBack

----------------------------------------------------------------------------
\* Arena planner.  Addresses are element offsets from Memory_buf.
MEM_LEN == 6922240
ROUTE16_LEN == 26 * 32 * 512
CONV27_LEN == 13 * 16 * 256
CONV24_LEN == 13 * 16 * 1024
DETECTION_WORKSPACE == 3 * 13 * 425
Memory_top == 512
Memory_bottom == Memory_top + MEM_LEN
NULL == -1

REORG == "REORG"
ROUTE == "ROUTE"
REGION == "REGION"

\* Layer lists handed to the planner: the YOLOv2 topology (32 layers) at several
\* input resolutions and channel widths, shaped as the cfg parser shapes them.
InputSizes == {320, 416, 608}
WidthMults == {1, 2}

YoloKinds == <<CONVOLUTIONAL, MAXPOOL, CONVOLUTIONAL, MAXPOOL,
               CONVOLUTIONAL, CONVOLUTIONAL, CONVOLUTIONAL, MAXPOOL,
               CONVOLUTIONAL, CONVOLUTIONAL, CONVOLUTIONAL, MAXPOOL,
               CONVOLUTIONAL, CONVOLUTIONAL, CONVOLUTIONAL, CONVOLUTIONAL, CONVOLUTIONAL, MAXPOOL,
               CONVOLUTIONAL, CONVOLUTIONAL, CONVOLUTIONAL, CONVOLUTIONAL, CONVOLUTIONAL,
               CONVOLUTIONAL, CONVOLUTIONAL, ROUTE, CONVOLUTIONAL, REORG, ROUTE,
               CONVOLUTIONAL, CONVOLUTIONAL, REGION>>
\* filters of the convolution layers, in layer order (the bias counts per conv layer)
beta_offsets == <<32, 64, 128, 64, 128, 256, 128, 256, 512, 256, 512, 256, 512, 1024,
                  512, 1024, 512, 1024, 1024, 1024, 64, 1024, 425, 0, 0, 0, 0, 0, 0, 0, 0, 0>>
\* kernel sizes of the convolution layers, in layer order
YoloSizes == <<3, 3, 3, 1, 3, 3, 1, 3, 3, 1, 3, 1, 3, 3, 1, 3, 1, 3, 3, 3, 1, 3, 1>>

\* number of convolution layers among layers 0..i-1 (the "conv ordinal" of layer i)
RECURSIVE ConvOrdinal(_, _)
ConvOrdinal(kinds, i) ==
    IF i = 0 THEN 0
    ELSE ConvOrdinal(kinds, i - 1) + (IF kinds[i] = CONVOLUTIONAL THEN 1 ELSE 0)

\* make_convolutional_layer / make_maxpool_layer / make_reorg_layer /
\* make_route_layer / make_region_layer: the shape of layer i given the layers before it
MakeLayer(prev, i, P, f) ==
    LET kind == YoloKinds[i + 1]
        src == IF i = 0 THEN [out_h |-> P, out_w |-> P, out_c |-> 3] ELSE prev[i]
    IN  IF kind = CONVOLUTIONAL THEN
            LET k == ConvOrdinal(YoloKinds, i) + 1
                size == YoloSizes[k]
                padding == size \div 2
                filters == IF i = 30 THEN beta_offsets[k] ELSE f * beta_offsets[k]
            IN [type |-> kind, h |-> src.out_h, w |-> src.out_w, c |-> src.out_c,
                size |-> size, stride |-> 1, pad |-> padding, filters |-> filters,
                out_h |-> (src.out_h + 2 * padding - size) \div 1 + 1,
                out_w |-> (src.out_w + 2 * padding - size) \div 1 + 1,
                out_c |-> filters]
        ELSE IF kind = MAXPOOL THEN
            [type |-> kind, h |-> src.out_h, w |-> src.out_w, c |-> src.out_c,
             size |-> 2, stride |-> 2, pad |-> 0, filters |-> 0,
             out_h |-> (src.out_h - 2) \div 2 + 1, out_w |-> (src.out_w - 2) \div 2 + 1,
             out_c |-> src.out_c]
        ELSE IF kind = REORG THEN
            [type |-> kind, h |-> src.out_h, w |-> src.out_w, c |-> src.out_c,
             size |-> 0, stride |-> 2, pad |-> 0, filters |-> 0,
             out_h |-> src.out_h \div 2, out_w |-> src.out_w \div 2, out_c |-> src.out_c * 4]
        ELSE IF kind = ROUTE THEN
            \* layer 25: layers=-9 (layer 16); layer 28: layers=-1,-4 (layers 27 and 24)
            LET a == IF i = 25 THEN prev[17] ELSE prev[28]
                total_c == IF i = 25 THEN prev[17].out_c ELSE prev[28].out_c + prev[25].out_c
            IN [type |-> kind, h |-> a.out_h, w |-> a.out_w, c |-> total_c,
                size |-> 0, stride |-> 0, pad |-> 0, filters |-> 0,
                out_h |-> a.out_h, out_w |-> a.out_w, out_c |-> total_c]
        ELSE
            [type |-> kind, h |-> src.out_h, w |-> src.out_w, c |-> src.out_c,
             size |-> 0, stride |-> 0, pad |-> 0, filters |-> 0,
             out_h |-> src.out_h, out_w |-> src.out_w, out_c |-> src.out_c]

RECURSIVE ParseLayers(_, _, _)
ParseLayers(prev, P, f) ==
    IF Len(prev) = Len(YoloKinds) THEN prev
    ELSE ParseLayers(Append(prev, MakeLayer(prev, Len(prev), P, f)), P, f)

YoloNet(P, f) == ParseLayers(<<>>, P, f)

\* net->layers[x] (C index) of the layer list under planning
Layer(x) == net[x + 1]
\* l.outputs
Outputs(l) == l.out_h * l.out_w * l.out_c

\* (w >> 3) << 3, plus 8 when w & 0x7
Align256b(w) == ((w \div 8) * 8) + (IF w % 8 # 0 THEN 8 ELSE 0)
\* out_c * out_h * out_w_align_256b
OutFootprint(l) == l.out_c * l.out_h * Align256b(l.out_w)
InFootprint(l) == l.c * l.h * Align256b(l.w)

\* State on entry of yolo2_generate_iofm_offset: a parsed layer list, pointers unset.
PlanInit ==
    /\ SchedIdle /\ SeqIdle /\ DrvIdle /\ CacheIdle /\ RescaleIdle /\ PoolIdle /\ MemIdle /\ KernIdle /\ ShiftIdle /\ LoopIdle /\ DmaIdle /\ StreamIdle
    /\ \E P \in InputSizes, f \in WidthMults : net = YoloNet(P, f)
    /\ in_ptr = [x \in 0..31 |-> NULL] /\ out_ptr = [x \in 0..31 |-> NULL]
    /\ plan_pc = "loop17" /\ plan_x = 0 /\ plan_rc = 0 /\ exec_i = 0

\* for (x = 0; x < 18 && x < net->n; x++): one iteration; no capacity test is made
PlanLoop17 ==
    /\ plan_pc = "loop17"
    /\ IF plan_x < 18 /\ plan_x < Len(net)
         THEN /\ IF plan_x % 2 = 0
                   THEN /\ in_ptr' = [in_ptr EXCEPT ![plan_x] = Memory_top]
                        /\ out_ptr' = [out_ptr EXCEPT ![plan_x] =
                                           Memory_bottom - OutFootprint(Layer(plan_x))]
                   ELSE /\ in_ptr' = [in_ptr EXCEPT ![plan_x] = out_ptr[plan_x - 1]]
                        /\ out_ptr' = [out_ptr EXCEPT ![plan_x] = Memory_top]
              /\ plan_x' = plan_x + 1 /\ plan_pc' = plan_pc
         ELSE plan_x' = 18 /\ plan_pc' = "loop24" /\ UNCHANGED <<in_ptr, out_ptr>>
    /\ UNCHANGED <<net, plan_rc, exec_i>>
    /\ UNCHANGED notPlan

\* for (x = 18; x < 25 && x < net->n; x++): one iteration
PlanLoop24 ==
    /\ plan_pc = "loop24"
    /\ IF plan_x < 25 /\ plan_x < Len(net)
         THEN /\ IF plan_x % 2 = 0
                   THEN /\ in_ptr' = [in_ptr EXCEPT ![plan_x] = Memory_top]
                        /\ out_ptr' = [out_ptr EXCEPT ![plan_x] =
                                 Memory_bottom - ROUTE16_LEN - OutFootprint(Layer(plan_x))]
                   ELSE /\ in_ptr' = [in_ptr EXCEPT ![plan_x] = out_ptr[plan_x - 1]]
                        /\ out_ptr' = [out_ptr EXCEPT ![plan_x] = Memory_top]
              /\ plan_x' = plan_x + 1 /\ plan_pc' = plan_pc
         ELSE plan_pc' = "tail" /\ UNCHANGED <<in_ptr, out_ptr, plan_x>>
    /\ UNCHANGED <<net, plan_rc, exec_i>>
    /\ UNCHANGED notPlan

\* layers 26, 27, 29, 30, 31 and "return 0"
PlanTail ==
    /\ plan_pc = "tail"
    /\ LET nn == Len(net)
           i26 == IF 26 < nn THEN [in_ptr EXCEPT ![26] = Memory_bottom - ROUTE16_LEN] ELSE in_ptr
           o26 == IF 26 < nn THEN [out_ptr EXCEPT ![26] = Memory_top] ELSE out_ptr
           i27 == IF 27 < nn THEN [i26 EXCEPT ![27] = Memory_top] ELSE i26
           o27 == IF 27 < nn
                    THEN [o26 EXCEPT ![27] = Memory_bottom - ROUTE16_LEN - CONV24_LEN - CONV27_LEN]
                    ELSE o26
           i29 == IF 29 < nn THEN [i27 EXCEPT ![29] = o27[27]] ELSE i27
           o29 == IF 29 < nn THEN [o27 EXCEPT ![29] = Memory_top] ELSE o27
           i30 == IF 30 < nn THEN [i29 EXCEPT ![30] = Memory_top] ELSE i29
           o30 == IF 30 < nn
                    THEN [o29 EXCEPT ![30] =
                            Memory_bottom - (Outputs(Layer(30)) + DETECTION_WORKSPACE)]
                    ELSE o29
           i31 == IF 31 < nn THEN [i30 EXCEPT ![31] = o30[30]] ELSE i30
           o31 == IF 31 < nn THEN [o30 EXCEPT ![31] = NULL] ELSE o30
       IN  in_ptr' = i31 /\ out_ptr' = o31
    /\ plan_rc' = 0 /\ plan_pc' = "planned"
    /\ UNCHANGED <<net, plan_x, exec_i>>
    /\ UNCHANGED notPlan

\* yolo2_run_inference after the planner returned: a non-zero result aborts,
\* otherwise the layer loop executes the next layer.
RunLayer ==
    /\ plan_pc = "planned" /\ plan_rc = 0 /\ exec_i < Len(net)
    /\ exec_i' = exec_i + 1
    /\ UNCHANGED <<net, in_ptr, out_ptr, plan_pc, plan_x, plan_rc>>
    /\ UNCHANGED notPlan

PlanNext == PlanLoop17 \/ PlanLoop24 \/ PlanTail \/ RunLayer

----------------------------------------------------------------------------
\* Layer sequencers (yolov2_hls_ps and yolo2_run_inference) and their Q state.
MaxRuns == 2

YOLO2_SUCCESS == "YOLO2_SUCCESS"
YOLO2_TIMEOUT == "YOLO2_TIMEOUT"
YOLO2_ERROR == "YOLO2_ERROR"
YOLO2_INIT_ERROR == "YOLO2_INIT_ERROR"

weight_offsets == <<864, 18432, 73728, 8192, 73728,
                    294912, 32768, 294912, 1179648, 131072, 1179648, 131072,
                    1179648, 4718592, 524288, 4718592, 524288, 4718592, 9437184,
                    9437184, 32768, 11796480, 435200, 0, 0, 0, 0, 0, 0, 0, 0, 0>>
NUM_WEIGHT_OFFSETS == Len(weight_offsets)
NUM_BETA_OFFSETS == Len(beta_offsets)

NumLayers == Len(YoloKinds)
\* net->layers[x].type
Kind(x) == YoloKinds[x + 1]

\* Contents of the Q tables (weight_Q.bin, bias_Q.bin, iofm_Q.bin).  The two
\* activation entries that meet at the concatenation - the output Q of layer 24
\* (entry 20) and of layer 26 (entry 21) - range over QValues.
QValues == {-2, 0, 3, 5}
TableShapes == {[a |-> 24, w |-> 23, b |-> 23], [a |-> 22, w |-> 23, b |-> 23],
                [a |-> 24, w |-> 20, b |-> 20], [a |-> 0, w |-> 0, b |-> 0]}
MakeActQ(len, qa24, qa26) ==
    [k \in 1..len |-> IF k - 1 = 20 THEN qa24
                      ELSE IF k - 1 = 21 THEN qa26 ELSE 1 + ((k - 1) % 5)]
MakeWeightQ(len) == [k \in 1..len |-> 11 + ((k - 1) % 3)]
MakeBiasQ(len) == [k \in 1..len |-> 7 + ((k - 1) % 4)]

\* (k < size) ? table[k] : dflt
TableQ(tbl, k, dflt) == IF k < Len(tbl) THEN tbl[k + 1] ELSE dflt
\* if (pending_route_q >= 0) Qa_in = pending_route_q;
ConvInputQ_Table(pending, tableQ) == tableQ
ConvInputQ(pending, tableQ) == IF pending >= 0 THEN pending ELSE tableQ
\* output Q of the k-th convolution: act_q[k+1], else the fallback
ActOutQ_Same(tbl, k, dflt) == TableQ(tbl, k, dflt)
ActOutQ(tbl, k, dflt) == TableQ(tbl, k + 1, dflt)
\* route24_q at the start of an inference
InitialRoute24Q_Kept == route24_q
InitialRoute24Q == 0
\* if (result != 0) return -1;
LayerFailed_Never(result) == FALSE
LayerFailed(result) == result # YOLO2_SUCCESS

RECURSIVE Pow2(_)
Pow2(e) == IF e = 0 THEN 1 ELSE 2 * Pow2(e - 1)
\* the int16 image, at scale 2^q, of the real value SampleReal
SampleReal == 4
Quantize(q) == IF q >= 0 THEN SampleReal * Pow2(q) ELSE SampleReal \div Pow2(-q)
\* yolo2_apply_q_shift_int16 on one element: v >>= shift / v <<= -shift, then clamp
ApplyQShift(v, shift) ==
    IF shift = 0 THEN v
    ELSE LET w == IF shift > 0 THEN v \div Pow2(shift) ELSE v * Pow2(-shift)
         IN  IF w > 32767 THEN 32767 ELSE IF w < -32768 THEN -32768 ELSE w

RECURSIVE SumTo(_, _)
\* table[0] + ... + table[k-1]
SumTo(tbl, k) == IF k = 0 THEN 0 ELSE SumTo(tbl, k - 1) + tbl[k]

NoTensors == [x \in 0..(NumLayers - 1) |-> 0]

\* What one backend call can do: reach START or not, and the result it reports.
\* rejected: the sequencer's own argument checks return -1 before the call.
ConvOutcomes ==
    {[rejected |-> TRUE,  q_set |-> FALSE, started |-> FALSE, result |-> YOLO2_ERROR],
     [rejected |-> FALSE, q_set |-> FALSE, started |-> FALSE, result |-> YOLO2_INIT_ERROR],
     [rejected |-> FALSE, q_set |-> FALSE, started |-> FALSE, result |-> YOLO2_ERROR],
     [rejected |-> FALSE, q_set |-> TRUE,  started |-> FALSE, result |-> YOLO2_TIMEOUT],
     [rejected |-> FALSE, q_set |-> TRUE,  started |-> TRUE,  result |-> YOLO2_ERROR],
     [rejected |-> FALSE, q_set |-> TRUE,  started |-> TRUE,  result |-> YOLO2_TIMEOUT],
     [rejected |-> FALSE, q_set |-> TRUE,  started |-> TRUE,  result |-> YOLO2_SUCCESS]}
PoolOutcomes ==
    {[rejected |-> TRUE,  q_set |-> FALSE, started |-> FALSE, result |-> YOLO2_ERROR],
     [rejected |-> FALSE, q_set |-> FALSE, started |-> FALSE, result |-> YOLO2_INIT_ERROR],
     [rejected |-> FALSE, q_set |-> FALSE, started |-> FALSE, result |-> YOLO2_TIMEOUT],
     [rejected |-> FALSE, q_set |-> FALSE, started |-> TRUE,  result |-> YOLO2_TIMEOUT],
     [rejected |-> FALSE, q_set |-> FALSE, started |-> TRUE,  result |-> YOLO2_SUCCESS]}

\* After yolo2_inference_init and the loading of the Q tables (Linux), or before
\* the first call of yolov2_hls_ps (HLS test bench).
SeqInit ==
    /\ SchedIdle /\ PlanIdle /\ DrvIdle /\ CacheIdle /\ RescaleIdle /\ PoolIdle /\ MemIdle /\ KernIdle /\ ShiftIdle /\ LoopIdle /\ DmaIdle /\ StreamIdle
    /\ impl \in {"linux", "hls"}
    /\ precision \in {INT16, FP32}
    /\ (impl = "linux") => (precision = INT16)
    /\ \E shape \in TableShapes, qa24 \in QValues, qa26 \in QValues :
           /\ act_q = MakeActQ(shape.a, qa24, qa26)
           /\ weight_q = MakeWeightQ(shape.w)
           /\ bias_q = MakeBiasQ(shape.b)
    /\ offset_index = 0 /\ woffset = 0 /\ boffset = 0
    /\ current_Qa = 0 /\ route24_q = 0 /\ pending_route_q = NoPending
    /\ seq_pc = "idle" /\ layer_i = 0 /\ seq_rc = 0 /\ runs = 0 /\ prev_end = "none"
    /\ gpio = <<0, 0, 0, 0>> /\ starts = <<>> /\ failed_at = -1 /\ backend_result = "none"
    /\ lastJob = NoJobRec /\ stored = NoTensors

\* load_weights: "Q tables too small for conv layers"
QTablesTooSmall(wQ, bQ) ==
    LET conv_layers == ConvOrdinal(YoloKinds, NumLayers)
    IN  Len(wQ) < conv_layers \/ Len(bQ) < conv_layers

\* how a finished call is remembered by the next one
EndOf(pcv, rc) == IF pcv = "idle" THEN "none" ELSE IF rc = 0 THEN "ok" ELSE "failed"

\* yolo2_run_inference up to the layer loop: plan, quantize the input, reset.
LinuxBegin ==
    /\ impl = "linux" /\ seq_pc \in {"idle", "done"} /\ runs < MaxRuns
    /\ runs' = runs + 1
    /\ prev_end' = EndOf(seq_pc, seq_rc)
    /\ starts' = <<>> /\ failed_at' = -1 /\ backend_result' = "none"
    /\ lastJob' = NoJobRec /\ stored' = NoTensors
    /\ layer_i' = 0
    /\ IF Len(act_q) > 0
         THEN /\ current_Qa' = act_q[1]
              /\ offset_index' = 0 /\ woffset' = 0 /\ boffset' = 0
              /\ route24_q' = InitialRoute24Q
              /\ pending_route_q' = NoPending
              /\ seq_pc' = "run" /\ seq_rc' = 0
         ELSE /\ seq_pc' = "done" /\ seq_rc' = -1
              /\ UNCHANGED <<current_Qa, offset_index, woffset, boffset, route24_q,
                             pending_route_q>>
    /\ UNCHANGED <<impl, precision, weight_q, bias_q, act_q, gpio>>
    /\ UNCHANGED notSeq

\* case LAYER_CONVOLUTIONAL: yolo2_inference_conv_layer, yolo2_execute_conv_layer
\* and the result test of the layer loop.
LinuxConv ==
    /\ impl = "linux" /\ seq_pc = "run" /\ layer_i < NumLayers
    /\ Kind(layer_i) = CONVOLUTIONAL
    /\ \E out \in ConvOutcomes :
         LET Qw == TableQ(weight_q, offset_index, 0)
             Qb == TableQ(bias_q, offset_index, 0)
             Qa_tbl == TableQ(act_q, offset_index, 0)
             Qa_out == ActOutQ(act_q, offset_index, Qa_tbl)
             Qa_in == ConvInputQ(pending_route_q, Qa_tbl)
             ok == ~out.rejected /\ out.result = YOLO2_SUCCESS
             failed == out.rejected \/ LayerFailed(out.result)
         IN  /\ IF out.rejected
                  THEN UNCHANGED <<pending_route_q, current_Qa, lastJob, gpio, starts,
                                   failed_at, backend_result>>
                  ELSE /\ pending_route_q' =
                              IF pending_route_q >= 0 THEN NoPending ELSE pending_route_q
                       /\ current_Qa' = Qa_out
                       /\ lastJob' = [layer |-> layer_i, k |-> offset_index, Qw |-> Qw,
                                      Qa_in |-> Qa_in, Qa_out |-> Qa_out, Qb |-> Qb,
                                      woffset |-> woffset, boffset |-> boffset,
                                      pend |-> pending_route_q]
                       /\ gpio' = IF out.q_set /\ (Qw # 0 \/ Qa_in # 0 \/ Qa_out # 0 \/ Qb # 0)
                                    THEN <<Qw, Qa_in, Qa_out, Qb>> ELSE gpio
                       /\ starts' = IF out.started THEN Append(starts, layer_i) ELSE starts
                       /\ failed_at' = IF out.result # YOLO2_SUCCESS THEN layer_i
                                       ELSE failed_at
                       /\ backend_result' = out.result
             /\ IF ok
                  THEN /\ route24_q' = IF layer_i = 24 THEN Qa_out ELSE route24_q
                       /\ woffset' = IF offset_index < NUM_WEIGHT_OFFSETS
                                       THEN woffset + weight_offsets[offset_index + 1]
                                       ELSE woffset
                       /\ boffset' = IF offset_index < NUM_BETA_OFFSETS
                                       THEN boffset + beta_offsets[offset_index + 1]
                                       ELSE boffset
                       /\ offset_index' = offset_index + 1
                       /\ stored' = [stored EXCEPT ![layer_i] = Quantize(Qa_out)]
                  ELSE UNCHANGED <<route24_q, woffset, boffset, offset_index, stored>>
             /\ IF failed
                  THEN seq_pc' = "done" /\ seq_rc' = -1 /\ layer_i' = layer_i
                  ELSE seq_pc' = "run" /\ seq_rc' = seq_rc /\ layer_i' = layer_i + 1
    /\ UNCHANGED <<impl, precision, weight_q, bias_q, act_q, runs, prev_end>>
    /\ UNCHANGED notSeq

\* case LAYER_MAXPOOL: yolo2_inference_maxpool_layer, yolo2_execute_maxpool_layer
\* and the result test of the layer loop.
LinuxMaxpool ==
    /\ impl = "linux" /\ seq_pc = "run" /\ layer_i < NumLayers
    /\ Kind(layer_i) = MAXPOOL
    /\ \E out \in PoolOutcomes :
         LET failed == out.rejected \/ LayerFailed(out.result)
         IN  /\ starts' = IF out.started THEN Append(starts, layer_i) ELSE starts
             /\ failed_at' = IF ~out.rejected /\ out.result # YOLO2_SUCCESS
                               THEN layer_i ELSE failed_at
             /\ backend_result' = IF out.rejected THEN backend_result ELSE out.result
             /\ stored' = IF ~out.rejected /\ out.result = YOLO2_SUCCESS
                            THEN [stored EXCEPT ![layer_i] = stored[layer_i - 1]]
                            ELSE stored
             /\ IF failed
                  THEN seq_pc' = "done" /\ seq_rc' = -1 /\ layer_i' = layer_i
                  ELSE seq_pc' = "run" /\ seq_rc' = seq_rc /\ layer_i' = layer_i + 1
    /\ UNCHANGED <<impl, precision, weight_q, bias_q, act_q, offset_index, woffset, boffset,
                   current_Qa, route24_q, pending_route_q, runs, prev_end, gpio, lastJob>>
    /\ UNCHANGED notSeq

\* case LAYER_REORG: yolo2_execute_reorg_layer (CPU), with the Q alignment of the
\* reorg branch; a failed allocation returns -1.
LinuxReorg ==
    /\ impl = "linux" /\ seq_pc = "run" /\ layer_i < NumLayers
    /\ Kind(layer_i) = REORG
    /\ \E alloc_ok \in BOOLEAN :
         IF alloc_ok
         THEN LET align == route24_q > 0 /\ current_Qa > 0
                  target_q == IF route24_q < current_Qa THEN route24_q ELSE current_Qa
                  shift == current_Qa - target_q
                  new_Qa == IF align /\ shift # 0 THEN target_q ELSE current_Qa
              IN  /\ stored' = [stored EXCEPT ![layer_i] =
                                   IF align THEN ApplyQShift(stored[layer_i - 1], shift)
                                   ELSE stored[layer_i - 1]]
                  /\ current_Qa' = new_Qa
                  /\ pending_route_q' = IF align THEN new_Qa ELSE pending_route_q
                  /\ seq_pc' = "run" /\ seq_rc' = seq_rc /\ layer_i' = layer_i + 1
         ELSE /\ seq_pc' = "done" /\ seq_rc' = -1
              /\ UNCHANGED <<stored, current_Qa, pending_route_q, layer_i>>
    /\ UNCHANGED <<impl, precision, weight_q, bias_q, act_q, offset_index, woffset, boffset,
                   route24_q, runs, prev_end, gpio, starts, failed_at, backend_result, lastJob>>
    /\ UNCHANGED notSeq

\* case LAYER_ROUTE: yolo2_execute_route_layer returns 0 and touches nothing
LinuxRoute ==
    /\ impl = "linux" /\ seq_pc = "run" /\ layer_i < NumLayers
    /\ Kind(layer_i) = ROUTE
    /\ layer_i' = layer_i + 1
    /\ UNCHANGED <<impl, precision, weight_q, bias_q, act_q, offset_index, woffset, boffset,
                   current_Qa, route24_q, pending_route_q, seq_pc, seq_rc, runs, prev_end,
                   gpio, starts, failed_at, backend_result, lastJob, stored>>
    /\ UNCHANGED notSeq

\* case LAYER_REGION: yolo2_execute_region_layer; a failed allocation returns -1
LinuxRegion ==
    /\ impl = "linux" /\ seq_pc = "run" /\ layer_i < NumLayers
    /\ Kind(layer_i) = REGION
    /\ \E alloc_ok \in BOOLEAN :
         IF alloc_ok
         THEN seq_pc' = "run" /\ seq_rc' = seq_rc /\ layer_i' = layer_i + 1
         ELSE seq_pc' = "done" /\ seq_rc' = -1 /\ layer_i' = layer_i
    /\ UNCHANGED <<impl, precision, weight_q, bias_q, act_q, offset_index, woffset, boffset,
                   current_Qa, route24_q, pending_route_q, runs, prev_end,
                   gpio, starts, failed_at, backend_result, lastJob, stored>>
    /\ UNCHANGED notSeq

\* the layer loop ends: return 0
LinuxReturn ==
    /\ impl = "linux" /\ seq_pc = "run" /\ layer_i = NumLayers
    /\ seq_pc' = "done" /\ seq_rc' = 0
    /\ UNCHANGED <<impl, precision, weight_q, bias_q, act_q, offset_index, woffset, boffset,
                   current_Qa, route24_q, pending_route_q, layer_i, runs, prev_end,
                   gpio, starts, failed_at, backend_result, lastJob, stored>>
    /\ UNCHANGED notSeq

\* yolov2_hls_ps up to the layer loop: fresh locals on every call.  An INT16
\* run without an activation table, or an FP32 run of an INT16_MODE build, throws.
HlsBegin ==
    /\ impl = "hls" /\ seq_pc \in {"idle", "done"} /\ runs < MaxRuns
    /\ runs' = runs + 1
    /\ prev_end' = EndOf(seq_pc, seq_rc)
    /\ starts' = <<>> /\ failed_at' = -1 /\ backend_result' = "none"
    /\ lastJob' = NoJobRec /\ stored' = NoTensors
    /\ layer_i' = 0
    /\ \E INT16_MODE \in BOOLEAN :
         IF \/ INT16_MODE /\ precision = FP32
            \/ precision = INT16 /\ QTablesTooSmall(weight_q, bias_q)
            \/ precision = INT16 /\ Len(act_q) = 0
         THEN /\ seq_pc' = "done" /\ seq_rc' = -1
              /\ UNCHANGED <<current_Qa, offset_index, woffset, boffset, route24_q,
                             pending_route_q>>
         ELSE /\ offset_index' = 0 /\ woffset' = 0 /\ boffset' = 0
              /\ current_Qa' = IF Len(act_q) > 0 THEN act_q[1] ELSE 0
              /\ route24_q' = InitialRoute24Q
              /\ pending_route_q' = NoPending
              /\ seq_pc' = "run" /\ seq_rc' = 0
    /\ UNCHANGED <<impl, precision, weight_q, bias_q, act_q, gpio>>
    /\ UNCHANGED notSeq

\* case CONVOLUTIONAL of yolov2_hls_ps
HlsConv ==
    /\ impl = "hls" /\ seq_pc = "run" /\ layer_i < NumLayers
    /\ Kind(layer_i) = CONVOLUTIONAL
    /\ LET q == precision = INT16
           Qa_tbl == IF q THEN TableQ(act_q, offset_index, current_Qa) ELSE 0
           Qa_out == IF q THEN ActOutQ(act_q, offset_index, Qa_tbl) ELSE 0
           Qw == IF q THEN TableQ(weight_q, offset_index, 0) ELSE 0
           Qb == IF q THEN TableQ(bias_q, offset_index, 0) ELSE 0
           Qa_in == IF q THEN ConvInputQ(pending_route_q, Qa_tbl) ELSE 0
       IN  /\ lastJob' = [layer |-> layer_i, k |-> offset_index, Qw |-> Qw,
                          Qa_in |-> Qa_in, Qa_out |-> Qa_out, Qb |-> Qb,
                          woffset |-> woffset, boffset |-> boffset,
                          pend |-> pending_route_q]
           /\ starts' = Append(starts, layer_i)
           /\ stored' = [stored EXCEPT ![layer_i] = Quantize(Qa_out)]
           /\ woffset' = woffset + weight_offsets[offset_index + 1]
           /\ boffset' = boffset + beta_offsets[offset_index + 1]
           /\ IF q
                THEN /\ current_Qa' = Qa_out
                     /\ route24_q' = IF layer_i = 24 THEN Qa_out ELSE route24_q
                     /\ pending_route_q' = NoPending
                ELSE UNCHANGED <<current_Qa, route24_q, pending_route_q>>
           /\ offset_index' = offset_index + 1
    /\ layer_i' = layer_i + 1
    /\ UNCHANGED <<impl, precision, weight_q, bias_q, act_q, seq_pc, seq_rc, runs, prev_end,
                   gpio, failed_at, backend_result>>
    /\ UNCHANGED notSeq

\* case MAXPOOL of yolov2_hls_ps
HlsMaxpool ==
    /\ impl = "hls" /\ seq_pc = "run" /\ layer_i < NumLayers
    /\ Kind(layer_i) = MAXPOOL
    /\ starts' = Append(starts, layer_i)
    /\ stored' = [stored EXCEPT ![layer_i] = stored[layer_i - 1]]
    /\ layer_i' = layer_i + 1
    /\ UNCHANGED <<impl, precision, weight_q, bias_q, act_q, offset_index, woffset, boffset,
                   current_Qa, route24_q, pending_route_q, seq_pc, seq_rc, runs, prev_end,
                   gpio, failed_at, backend_result, lastJob>>
    /\ UNCHANGED notSeq

\* case REORG of yolov2_hls_ps: reorg_cpu and the Q alignment of the reorg branch
HlsReorg ==
    /\ impl = "hls" /\ seq_pc = "run" /\ layer_i < NumLayers
    /\ Kind(layer_i) = REORG
    /\ LET align == precision = INT16 /\ route24_q > 0
           target_q == MIN(route24_q, current_Qa)
           shift == current_Qa - target_q
           new_Qa == IF align /\ shift # 0 THEN target_q ELSE current_Qa
       IN  /\ stored' = [stored EXCEPT ![layer_i] =
                            IF align THEN ApplyQShift(stored[layer_i - 1], shift)
                            ELSE stored[layer_i - 1]]
           /\ current_Qa' = new_Qa
           /\ pending_route_q' = IF align THEN new_Qa ELSE pending_route_q
    /\ layer_i' = layer_i + 1
    /\ UNCHANGED <<impl, precision, weight_q, bias_q, act_q, offset_index, woffset, boffset,
                   route24_q, seq_pc, seq_rc, runs, prev_end, gpio, starts, failed_at, backend_result,
                   lastJob>>
    /\ UNCHANGED notSeq

\* case ROUTE of yolov2_hls_ps: break
HlsRoute ==
    /\ impl = "hls" /\ seq_pc = "run" /\ layer_i < NumLayers
    /\ Kind(layer_i) = ROUTE
    /\ layer_i' = layer_i + 1
    /\ UNCHANGED <<impl, precision, weight_q, bias_q, act_q, offset_index, woffset, boffset,
                   current_Qa, route24_q, pending_route_q, seq_pc, seq_rc, runs, prev_end,
                   gpio, starts, failed_at, backend_result, lastJob, stored>>
    /\ UNCHANGED notSeq

\* case REGION of yolov2_hls_ps: dequantize with current_Qa, forward_region_layer
HlsRegion ==
    /\ impl = "hls" /\ seq_pc = "run" /\ layer_i < NumLayers
    /\ Kind(layer_i) = REGION
    /\ layer_i' = layer_i + 1
    /\ UNCHANGED <<impl, precision, weight_q, bias_q, act_q, offset_index, woffset, boffset,
                   current_Qa, route24_q, pending_route_q, seq_pc, seq_rc, runs, prev_end,
                   gpio, starts, failed_at, backend_result, lastJob, stored>>
    /\ UNCHANGED notSeq

\* the layer loop ends: free(Memory_buf) and return
HlsReturn ==
    /\ impl = "hls" /\ seq_pc = "run" /\ layer_i = NumLayers
    /\ seq_pc' = "done" /\ seq_rc' = 0
    /\ UNCHANGED <<impl, precision, weight_q, bias_q, act_q, offset_index, woffset, boffset,
                   current_Qa, route24_q, pending_route_q, layer_i, runs, prev_end,
                   gpio, starts, failed_at, backend_result, lastJob, stored>>
    /\ UNCHANGED notSeq

SeqNext == LinuxBegin \/ LinuxConv \/ LinuxMaxpool \/ LinuxReorg \/ LinuxRoute
           \/ LinuxRegion \/ LinuxReturn
           \/ HlsBegin \/ HlsConv \/ HlsMaxpool \/ HlsReorg \/ HlsRoute \/ HlsRegion
           \/ HlsReturn

----------------------------------------------------------------------------
\* Linux driver: yolo2_accel_init, yolo2_is_busy, yolo2_execute_conv_layer,
\* yolo2_execute_maxpool_layer and wait_for_idle, one action per stretch of code
\* between two accesses to AP_CTRL, interleaved with the device.

DrvInitState ==
    /\ SchedIdle /\ PlanIdle /\ SeqIdle /\ DrvIdle /\ CacheIdle /\ RescaleIdle /\ PoolIdle /\ MemIdle /\ KernIdle /\ ShiftIdle /\ LoopIdle /\ DmaIdle /\ StreamIdle

\* the device side of a read of AP_CTRL: DONE clears on read, READY on some cores
ReadClears ==
    /\ ap_done' = FALSE
    /\ ap_ready' = IF ready_cor THEN FALSE ELSE ap_ready

drvGhost == <<jobs_called, start_writes, ends_at_start, busy_ret, busy_truth>>
drvDev == <<dev_running, dev_begins, dev_ends, ready_cor>>
drvCall == <<initialized, drv_job, call_writes, q_gpio, ctrl_params>>

\* the device takes START and begins the job described by the control registers
DevBegin ==
    /\ ap_start /\ ~dev_running
    /\ dev_running' = TRUE
    /\ dev_begins' = dev_begins + 1
    /\ UNCHANGED <<initialized, ap_start, ap_done, ap_ready, ready_cor, drv_pc, drv_job,
                   status, was_running, poll_i, wait_ret, drv_result, call_writes,
                   jobs_called, start_writes, ends_at_start, dev_ends, busy_ret,
                   busy_truth, q_gpio, ctrl_params>>
    /\ UNCHANGED notDrv

\* the device completes its job: DONE and READY rise, START drops, IDLE returns
DevEnd ==
    /\ dev_running
    /\ dev_running' = FALSE
    /\ ap_done' = TRUE /\ ap_ready' = TRUE /\ ap_start' = FALSE
    /\ dev_ends' = dev_ends + 1
    /\ UNCHANGED <<initialized, ready_cor, drv_pc, drv_job, status, was_running, poll_i,
                   wait_ret, drv_result, call_writes, jobs_called, start_writes,
                   ends_at_start, dev_begins, busy_ret, busy_truth, q_gpio,
                   ctrl_params>>
    /\ UNCHANGED notDrv

\* yolo2_accel_init
DrvInit ==
    /\ drv_pc = "idle" /\ ~initialized
    /\ initialized' = TRUE
    /\ q_gpio' = <<0, 0, 0, 0>>
    /\ \E cor \in BOOLEAN : ready_cor' = cor
    /\ status' = StatusWord
    /\ ap_done' = FALSE /\ ap_ready' = IF ready_cor' THEN FALSE ELSE ap_ready
    /\ UNCHANGED <<ap_start, dev_running, drv_pc, drv_job, was_running, poll_i, wait_ret,
                   drv_result, call_writes, jobs_called, start_writes, ends_at_start,
                   dev_begins, dev_ends, busy_ret, busy_truth, ctrl_params>>
    /\ UNCHANGED notDrv

\* yolo2_is_busy
DrvIsBusy ==
    /\ drv_pc = "idle"
    /\ IF ~initialized
         THEN /\ busy_ret' = 0
              /\ UNCHANGED <<status, ap_done, ap_ready>>
         ELSE /\ status' = StatusWord
              /\ ReadClears
              /\ busy_ret' = IsBusy(StatusWord)
    /\ busy_truth' = dev_running
    /\ UNCHANGED <<initialized, ap_start, dev_running, ready_cor, drv_pc, drv_job,
                   was_running, poll_i, wait_ret, drv_result, call_writes, jobs_called,
                   start_writes, ends_at_start, dev_begins, dev_ends, q_gpio,
                   ctrl_params>>
    /\ UNCHANGED notDrv

\* entry of yolo2_execute_conv_layer / yolo2_execute_maxpool_layer, up to the
\* first read of AP_CTRL
DrvCall ==
    /\ drv_pc = "idle" /\ jobs_called < MaxJobs
    /\ \E j \in DrvJobs :
        /\ drv_job' = j
        /\ IF ~initialized
             THEN /\ drv_result' = YOLO2_INIT_ERROR /\ drv_pc' = "ret"
                  /\ call_writes' = {} /\ q_gpio' = q_gpio
             ELSE IF ~ParamsChecked(j)
             THEN /\ drv_result' = YOLO2_ERROR /\ drv_pc' = "ret"
                  /\ call_writes' = {} /\ q_gpio' = q_gpio
             ELSE /\ drv_result' = "none" /\ drv_pc' = "pre1"
                  /\ IF j.kind = CONVOLUTIONAL /\ \E i \in 1..4 : j.qs[i] # 0
                       THEN q_gpio' = j.qs /\ call_writes' = {"gpio"}
                       ELSE q_gpio' = q_gpio /\ call_writes' = {}
    /\ jobs_called' = jobs_called + 1
    /\ UNCHANGED <<initialized, ap_start, ap_done, ap_ready, dev_running, ready_cor,
                   status, was_running, poll_i, wait_ret, start_writes, ends_at_start,
                   dev_begins, dev_ends, busy_ret, busy_truth, ctrl_params>>
    /\ UNCHANGED notDrv

\* what follows the status reads made before the registers are written
PreDecide(st) ==
    IF ~st.IDLE
      THEN /\ drv_pc' = "w1" /\ wait_ret' = "pre" /\ poll_i' = 0 /\ was_running' = FALSE
      ELSE /\ drv_pc' = "write" /\ UNCHANGED <<wait_ret, poll_i, was_running>>

\* a read of AP_CTRL in the "wait for idle before starting" prologue
DrvPreRead ==
    /\ drv_pc \in {"pre1", "pre2", "pre3"}
    /\ status' = StatusWord
    /\ ReadClears
    /\ IF drv_job.kind = MAXPOOL THEN PreDecide(StatusWord)
       ELSE IF drv_pc = "pre1" /\ StatusWord.DONE
         THEN drv_pc' = "pre2" /\ UNCHANGED <<wait_ret, poll_i, was_running>>
       ELSE IF drv_pc \in {"pre1", "pre2"} /\ StatusWord.READY
         THEN drv_pc' = "pre3" /\ UNCHANGED <<wait_ret, poll_i, was_running>>
       ELSE PreDecide(StatusWord)
    /\ UNCHANGED <<ap_start, drv_result>>
    /\ UNCHANGED <<drvGhost, drvDev, drvCall>>
    /\ UNCHANGED notDrv

\* the reads that clear DONE/READY after the prologue's wait_for_idle (conv only)
DrvPreClear ==
    /\ drv_pc \in {"pre4", "pre5"}
    /\ status' = StatusWord
    /\ ReadClears
    /\ drv_pc' = IF drv_pc = "pre4" /\ (StatusWord.DONE \/ StatusWord.READY)
                   THEN "pre5" ELSE "write"
    /\ UNCHANGED <<ap_start, drv_result, wait_ret, poll_i, was_running>>
    /\ UNCHANGED <<drvGhost, drvDev, drvCall>>
    /\ UNCHANGED notDrv

\* return of wait_for_idle to its call site
WaitReturn(res) ==
    IF wait_ret = "pre"
      THEN IF res # YOLO2_SUCCESS
             THEN drv_result' = YOLO2_TIMEOUT /\ drv_pc' = "ret"
             ELSE /\ drv_result' = drv_result
                  /\ drv_pc' = IF drv_job.kind = CONVOLUTIONAL THEN "pre4" ELSE "write"
      ELSE drv_result' = res /\ drv_pc' = "ret"

\* wait_for_idle, first loop: poll until the device leaves IDLE
DrvWaitLeave ==
    /\ drv_pc \in {"w1", "w1b"}
    /\ status' = StatusWord
    /\ ReadClears
    /\ IF drv_pc = "w1" /\ StatusWord.DONE
         THEN drv_pc' = "w1b" /\ UNCHANGED <<was_running, poll_i>>
       ELSE IF ~StatusWord.IDLE
         THEN drv_pc' = "w3" /\ was_running' = TRUE /\ poll_i' = poll_i
       ELSE /\ poll_i' = poll_i + 1
            /\ drv_pc' = IF poll_i + 1 >= MaxPolls THEN "w2" ELSE "w1"
            /\ was_running' = was_running
    /\ UNCHANGED <<ap_start, drv_result, wait_ret>>
    /\ UNCHANGED <<drvGhost, drvDev, drvCall>>
    /\ UNCHANGED notDrv

\* wait_for_idle, "never left IDLE": DONE or READY counts as completed instantly
DrvWaitInstant ==
    /\ drv_pc \in {"w2", "w2b"}
    /\ status' = StatusWord
    /\ ReadClears
    /\ IF drv_pc = "w2b" THEN WaitReturn(YOLO2_SUCCESS)
       ELSE /\ drv_pc' = IF StatusWord.DONE \/ StatusWord.READY THEN "w2b" ELSE "w3"
            /\ drv_result' = drv_result
    /\ UNCHANGED <<ap_start, wait_ret, was_running, poll_i>>
    /\ UNCHANGED <<drvGhost, drvDev, drvCall>>
    /\ UNCHANGED notDrv

\* wait_for_idle, second loop: poll until IDLE returns, or until the timeout
\* has expired (elapsed > timeout_ms)
DrvWaitIdle ==
    /\ drv_pc \in {"w3", "w3b"}
    /\ status' = StatusWord
    /\ ReadClears
    /\ IF drv_pc = "w3" /\ StatusWord.DONE
         THEN drv_pc' = "w3b" /\ drv_result' = drv_result
       ELSE IF StatusWord.IDLE THEN WaitReturn(YOLO2_SUCCESS)
       ELSE /\ \E expired \in BOOLEAN : drv_pc' = IF expired THEN "w3t" ELSE "w3"
            /\ drv_result' = drv_result
    /\ UNCHANGED <<ap_start, wait_ret, was_running, poll_i>>
    /\ UNCHANGED <<drvGhost, drvDev, drvCall>>
    /\ UNCHANGED notDrv

\* wait_for_idle, second loop: the timeout expired; a write of 0 to AP_CTRL is
\* attempted when START is set, which the core may or may not honour
DrvWaitTimeout ==
    /\ drv_pc = "w3t"
    /\ IF status.START
         THEN /\ \E cleared \in BOOLEAN : ap_start' = (ap_start /\ ~cleared)
              /\ status' = [StatusWord EXCEPT !.START = ap_start']
              /\ ReadClears
         ELSE UNCHANGED <<ap_start, status, ap_done, ap_ready>>
    /\ WaitReturn(YOLO2_TIMEOUT)
    /\ UNCHANGED <<wait_ret, was_running, poll_i>>
    /\ UNCHANGED <<drvGhost, drvDev, drvCall>>
    /\ UNCHANGED notDrv

\* the address and layer-parameter registers are written
DrvWriteRegs ==
    /\ drv_pc = "write"
    /\ ctrl_params' = IF drv_job.kind = MAXPOOL THEN [drv_job EXCEPT !.tn = 0] ELSE drv_job
    /\ call_writes' = call_writes \cup {"regs"}
    /\ drv_pc' = "start"
    /\ UNCHANGED <<initialized, ap_start, ap_done, ap_ready, dev_running, ready_cor,
                   drv_job, status, was_running, poll_i, wait_ret, drv_result,
                   jobs_called, start_writes, ends_at_start, dev_begins, dev_ends,
                   busy_ret, busy_truth, q_gpio>>
    /\ UNCHANGED notDrv

\* AP_START is written; the max-pool path goes straight to wait_for_idle
DrvStart ==
    /\ drv_pc = "start"
    /\ ap_start' = TRUE
    /\ start_writes' = start_writes + 1
    /\ ends_at_start' = dev_ends
    /\ call_writes' = call_writes \cup {"start"}
    /\ IF drv_job.kind = CONVOLUTIONAL
         THEN drv_pc' = "post" /\ UNCHANGED <<wait_ret, poll_i, was_running>>
         ELSE drv_pc' = "w1" /\ wait_ret' = "post" /\ poll_i' = 0 /\ was_running' = FALSE
    /\ UNCHANGED <<initialized, ap_done, ap_ready, dev_running, ready_cor, drv_job,
                   status, drv_result, jobs_called, dev_begins, dev_ends, busy_ret,
                   busy_truth, q_gpio, ctrl_params>>
    /\ UNCHANGED notDrv

\* conv path: "verify accelerator actually started" read after START
DrvPostStart ==
    /\ drv_pc = "post"
    /\ status' = StatusWord
    /\ ReadClears
    /\ IF ~StatusWord.START
         THEN /\ drv_result' = YOLO2_ERROR /\ drv_pc' = "ret"
              /\ UNCHANGED <<wait_ret, poll_i, was_running>>
         ELSE /\ drv_pc' = "w1" /\ wait_ret' = "post" /\ poll_i' = 0
              /\ was_running' = FALSE /\ drv_result' = drv_result
    /\ UNCHANGED ap_start
    /\ UNCHANGED <<drvGhost, drvDev, drvCall>>
    /\ UNCHANGED notDrv

\* the driver call returns to its caller
DrvReturn ==
    /\ drv_pc = "ret"
    /\ drv_pc' = "idle"
    /\ UNCHANGED <<ap_start, ap_done, ap_ready, status, drv_result, wait_ret,
                   was_running, poll_i>>
    /\ UNCHANGED <<drvGhost, drvDev, drvCall>>
    /\ UNCHANGED notDrv

DrvNext == DevBegin \/ DevEnd \/ DrvInit \/ DrvIsBusy \/ DrvCall \/ DrvPreRead
           \/ DrvPreClear \/ DrvWaitLeave \/ DrvWaitInstant \/ DrvWaitIdle
           \/ DrvWaitTimeout \/ DrvWriteRegs \/ DrvStart
           \/ DrvPostStart \/ DrvReturn

----------------------------------------------------------------------------
\* Cache maintenance of the Linux orchestrator (main.c, yolo2_run_inference):
\* which DMA ranges the CPU has written and not flushed (dirty), which ranges the
\* device has written and the CPU has not invalidated (stale).

\* INPUT_ELEMS of the reference network
ImageElems == 416 * 416 * 3
RefNet == YoloNet(416, 1)
\* weights_size / bias_size in elements
WeightElems == SumTo(weight_offsets, NUM_WEIGHT_OFFSETS)
BiasElems == SumTo(beta_offsets, NUM_BETA_OFFSETS)
\* ctx->woffset / ctx->boffset when layer x is reached
WOffsetAt(x) == SumTo(weight_offsets, ConvOrdinal(YoloKinds, x))
BOffsetAt(x) == SumTo(beta_offsets, ConvOrdinal(YoloKinds, x))

\* what the device reads and writes for the job of layer x
DevInput(x) == Range("arena", in_ptr[x], InFootprint(Layer(x)))
DevWeights(x) == Range("weights", WOffsetAt(x), weight_offsets[ConvOrdinal(YoloKinds, x) + 1])
DevBias(x) == Range("bias", BOffsetAt(x), beta_offsets[ConvOrdinal(YoloKinds, x) + 1])
DevOutput(x) == Range("arena", out_ptr[x], OutFootprint(Layer(x)))
\* what the CPU reads in the reorg and region layers
ReorgRead(x) == Range("arena", in_ptr[x], (26 * 64 - 1) * 32 + 26)
RegionRead(x) == Range("arena", in_ptr[x], (13 * 425 - 1) * 16 + 13)

CacheInit ==
    /\ SchedIdle /\ PlanIdle /\ SeqIdle /\ DrvIdle /\ CacheIdle /\ RescaleIdle /\ PoolIdle /\ MemIdle /\ KernIdle /\ ShiftIdle /\ LoopIdle /\ DmaIdle /\ StreamIdle

cacheGhost == <<dev_reads, dev_read_dirty, cpu_reads, cpu_read_stale>>

\* main: weights and bias are copied into their DMA buffers and flushed
CacheLoadWeights ==
    /\ cache_pc = "off"
    /\ LET w == Range("weights", 0, WeightElems)
           b == Range("bias", 0, BiasElems)
       IN dirty' = memory_flush_cache(memory_flush_cache(dirty \cup {w, b}, w), b)
    /\ cache_pc' = "idle"
    /\ UNCHANGED <<cache_i, cache_runs, stale, cacheGhost>>
    /\ UNCHANGED <<planVars, notCache>>

\* yolo2_run_inference is entered; the memory layout is generated first
CacheBegin ==
    /\ cache_pc = "idle" /\ cache_runs < MaxRuns
    /\ net' = RefNet
    /\ in_ptr' = [x \in 0..31 |-> NULL] /\ out_ptr' = [x \in 0..31 |-> NULL]
    /\ plan_pc' = "loop17" /\ plan_x' = 0 /\ plan_rc' = 0 /\ exec_i' = 0
    /\ cache_pc' = "plan"
    /\ UNCHANGED <<cache_i, cache_runs, dirty, stale, cacheGhost>>
    /\ UNCHANGED notCache

\* the input image is quantized into in_ptr[0] and flushed
CacheImage ==
    /\ cache_pc = "plan" /\ plan_pc = "planned"
    /\ LET img == Range("arena", in_ptr[0], ImageElems)
       IN dirty' = memory_flush_cache(dirty \cup {img}, img)
    /\ cache_pc' = "layer" /\ cache_i' = 0
    /\ UNCHANGED <<cache_runs, stale, cacheGhost>>
    /\ UNCHANGED <<planVars, notCache>>

\* yolo2_inference_conv_layer: flush input, weights and bias
CacheConvFlush ==
    /\ cache_pc = "layer" /\ Kind(cache_i) = CONVOLUTIONAL
    /\ LET l == Layer(cache_i)
           fin == Range("arena", in_ptr[cache_i], l.w * l.h * l.c)
           fw == Range("weights", 0, WOffsetAt(cache_i) + l.c * l.filters * l.size * l.size)
           fb == Range("bias", 0, BOffsetAt(cache_i) + l.filters)
       IN dirty' = memory_flush_cache(memory_flush_cache(memory_flush_cache(dirty, fin), fw), fb)
    /\ cache_pc' = "start"
    /\ UNCHANGED <<cache_i, cache_runs, stale, cacheGhost>>
    /\ UNCHANGED <<planVars, notCache>>

\* yolo2_execute_conv_layer writes START: the device reads input, weights, bias
CacheConvStart ==
    /\ cache_pc = "start"
    /\ dev_reads' = {DevInput(cache_i), DevWeights(cache_i), DevBias(cache_i)}
    /\ dev_read_dirty' = Touched(dirty, dev_reads')
    /\ cache_pc' = "running"
    /\ UNCHANGED <<cache_i, cache_runs, dirty, stale, cpu_reads, cpu_read_stale>>
    /\ UNCHANGED <<planVars, notCache>>

\* yolo2_inference_maxpool_layer: START is written without any flush call
CachePoolStart ==
    /\ cache_pc = "layer" /\ Kind(cache_i) = MAXPOOL
    /\ dev_reads' = {DevInput(cache_i)}
    /\ dev_read_dirty' = Touched(dirty, dev_reads')
    /\ cache_pc' = "running"
    /\ UNCHANGED <<cache_i, cache_runs, dirty, stale, cpu_reads, cpu_read_stale>>
    /\ UNCHANGED <<planVars, notCache>>

\* the job completes (the execute call is blocking): the output is in memory
CacheJobDone ==
    /\ cache_pc = "running"
    /\ stale' = stale \cup {DevOutput(cache_i)}
    /\ cache_pc' = "returned"
    /\ UNCHANGED <<cache_i, cache_runs, dirty, cacheGhost>>
    /\ UNCHANGED <<planVars, notCache>>

\* yolo2_run_inference: memory_invalidate_cache(out_ptr[i], ...) after the layer
CacheInvalidate ==
    /\ cache_pc = "returned"
    /\ LET l == Layer(cache_i)
       IN stale' = memory_invalidate_cache(stale,
                       Range("arena", out_ptr[cache_i], l.out_w * l.out_h * l.out_c))
    /\ cache_pc' = "layer" /\ cache_i' = cache_i + 1
    /\ UNCHANGED <<cache_runs, dirty, cacheGhost>>
    /\ UNCHANGED <<planVars, notCache>>

\* yolo2_execute_reorg_layer: the CPU reads in_ptr, writes out_ptr and flushes it
CacheReorg ==
    /\ cache_pc = "layer" /\ Kind(cache_i) = REORG
    /\ cpu_reads' = {ReorgRead(cache_i)}
    /\ cpu_read_stale' = Touched(stale, cpu_reads')
    /\ LET out == Range("arena", out_ptr[cache_i], 13 * 16 * 256)
       IN dirty' = memory_flush_cache(dirty \cup {out}, out)
    /\ cache_i' = cache_i + 1
    /\ UNCHANGED <<cache_pc, cache_runs, stale, dev_reads, dev_read_dirty>>
    /\ UNCHANGED <<planVars, notCache>>

\* yolo2_execute_route_layer: no element is moved
CacheRoute ==
    /\ cache_pc = "layer" /\ Kind(cache_i) = ROUTE
    /\ cache_i' = cache_i + 1
    /\ UNCHANGED <<cache_pc, cache_runs, dirty, stale, cacheGhost>>
    /\ UNCHANGED <<planVars, notCache>>

\* yolo2_execute_region_layer: invalidate in_ptr, then read it; the run ends
CacheRegion ==
    /\ cache_pc = "layer" /\ Kind(cache_i) = REGION
    /\ stale' = memory_invalidate_cache(stale, Range("arena", in_ptr[cache_i], 13 * 16 * 425))
    /\ cpu_reads' = {RegionRead(cache_i)}
    /\ cpu_read_stale' = Touched(stale', cpu_reads')
    /\ cache_pc' = "idle" /\ cache_runs' = cache_runs + 1
    /\ UNCHANGED <<cache_i, dirty, dev_reads, dev_read_dirty>>
    /\ UNCHANGED <<planVars, notCache>>

CacheNext == CacheLoadWeights \/ CacheBegin \/ PlanLoop17 \/ PlanLoop24 \/ PlanTail
             \/ CacheImage \/ CacheConvFlush \/ CacheConvStart \/ CachePoolStart
             \/ CacheJobDone \/ CacheInvalidate \/ CacheReorg \/ CacheRoute \/ CacheRegion

----------------------------------------------------------------------------
\* The rescale of the compute kernel (core_compute.cpp): a signed shift applied
\* to a 64-bit accumulator, rounding half up on the way down.
MaxShift == 3
MaxValue == 9
\* the clamp of the shift magnitude
SHIFT_CLAMP == 30

Abs(x) == IF x < 0 THEN -x ELSE x
\* out_shift_mag / bias_shift_mag
ShiftMag(s) == IF Abs(s) > SHIFT_CLAMP THEN SHIFT_CLAMP ELSE Abs(s)
\* (x + round) >> mag for shift > 0, x << mag for shift < 0, on int64_t
Rescale_Truncate(x, s) ==
    IF s > 0 THEN x \div Pow2(ShiftMag(s))
    ELSE IF s < 0 THEN x * Pow2(ShiftMag(s))
    ELSE x
Rescale(x, s) ==
    LET mag == ShiftMag(s)
        round == IF s > 0 /\ mag > 0 THEN Pow2(mag - 1) ELSE 0
    IN  IF s > 0 THEN (x + round) \div Pow2(mag)
        ELSE IF s < 0 THEN x * Pow2(mag)
        ELSE x
\* the build without INT16_MODE has no shift at the same places
RescaleFloat(x, s) == x
RescaleIn(mode, x, s) == IF mode = INT16 THEN Rescale(x, s) ELSE RescaleFloat(x, s)

\* shifts and values the round trip is tried on: small ones, and the clamp
Shifts == (-MaxShift..MaxShift) \cup {-SHIFT_CLAMP, SHIFT_CLAMP, SHIFT_CLAMP + 1}
Values == (-MaxValue..MaxValue) \cup {-32768, 32767}
\* the up-shifted value stays below 2^31, well inside the 64-bit accumulator
NoOverflow(v, s) == s >= 0 \/ Abs(v) <= Pow2(SHIFT_CLAMP - ShiftMag(s))

RescaleInit ==
    /\ SchedIdle /\ PlanIdle /\ SeqIdle /\ DrvIdle /\ CacheIdle /\ PoolIdle /\ MemIdle /\ KernIdle /\ ShiftIdle /\ LoopIdle /\ DmaIdle /\ StreamIdle
    /\ rs_pc = "in"
    /\ rs_mode \in {INT16, FP32}
    /\ rs_v \in Values /\ rs_s \in Shifts
    /\ NoOverflow(rs_v, rs_s)
    /\ rs_mid = 0 /\ rs_out = 0

\* rescale by s
RescaleForth ==
    /\ rs_pc = "in"
    /\ rs_mid' = RescaleIn(rs_mode, rs_v, rs_s)
    /\ rs_pc' = "mid"
    /\ UNCHANGED <<rs_mode, rs_v, rs_s, rs_out>>
    /\ UNCHANGED notRescale

\* rescale the result by -s, with no saturation in between
RescaleBack ==
    /\ rs_pc = "mid"
    /\ rs_out' = RescaleIn(rs_mode, rs_mid, -rs_s)
    /\ rs_pc' = "out"
    /\ UNCHANGED <<rs_mode, rs_v, rs_s, rs_mid>>
    /\ UNCHANGED notRescale

RescaleNext == RescaleForth \/ RescaleBack

----------------------------------------------------------------------------
\* One max-pool window (core_io.cpp input_load / ifm_copy_lbuf2ibuf and
\* core_compute.cpp pool_yolo2), for a 2x2 kernel on channel `of`, tile
\* position tr = tc = 0.
MaxPoolValue == 3
\* Ksize of the max-pool layers
PoolKsize == 2

\* conversion of an int to IO_Dtype: int16_t keeps the low 16 bits, float is exact
ToIO(mode, x) == IF mode = INT16 THEN ((x + 32768) % 65536) - 32768 ELSE x
\* IO_Dtype pad_value = 0.0f; if (LayerType == 1) pad_value = -1024*1024;
PadValue(mode, LayerType) ==
    IF LayerType = 1 THEN ToIO(mode, -1024 * 1024) ELSE ToIO(mode, 0)
\* tmp[of] at the first tap
PoolSentinel(mode) == IF mode = INT16 THEN ToIO(mode, -32768) ELSE -1024 * 1024

PoolValues == {-MaxPoolValue, -1, MaxPoolValue}
TapRow(k) == k \div PoolKsize
TapCol(k) == k % PoolKsize
Taps == 0..(PoolKsize * PoolKsize - 1)
\* XEnable && PEnable of ifm_copy_lbuf2ibuf for buffer cell [t2][t3]
CellEnabled(t2, t3) ==
    LET yoffset == pool_Roffset + t2
        xoffset == pool_Coffset + t3
    IN  /\ xoffset >= 0 /\ xoffset < pool_Input_w
        /\ yoffset >= 0 /\ yoffset < pool_Input_h
        /\ pool_TN_Enable

PoolInit ==
    /\ SchedIdle /\ PlanIdle /\ SeqIdle /\ DrvIdle /\ CacheIdle /\ RescaleIdle /\ MemIdle /\ KernIdle /\ ShiftIdle /\ LoopIdle /\ DmaIdle /\ StreamIdle
    /\ pool_pc = "in"
    /\ pool_mode \in {INT16, FP32}
    /\ pool_Input_w \in 1..PoolKsize /\ pool_Input_h \in 1..PoolKsize
    /\ pool_image \in [0..(PoolKsize - 1) -> [0..(PoolKsize - 1) -> PoolValues]]
    /\ \A y \in 0..(PoolKsize - 1), x \in 0..(PoolKsize - 1) :
           (y >= pool_Input_h \/ x >= pool_Input_w) => pool_image[y][x] = -1
    /\ pool_Coffset \in -1..1 /\ pool_Roffset \in -1..1
    /\ pool_TN_Enable \in BOOLEAN
    /\ pool_ibuf = <<>> /\ pool_tmp = Unwritten /\ pool_tap = 0 /\ pool_out = Unwritten

\* input_load with LayerType == 1: every cell of the window gets the image
\* value or pad_value
PoolLoad ==
    /\ pool_pc = "in"
    /\ pool_ibuf' = [t2 \in 0..(PoolKsize - 1) |-> [t3 \in 0..(PoolKsize - 1) |->
                        IF CellEnabled(t2, t3)
                          THEN pool_image[pool_Roffset + t2][pool_Coffset + t3]
                          ELSE PadValue(pool_mode, 1)]]
    /\ pool_pc' = "loaded"
    /\ UNCHANGED <<pool_mode, pool_image, pool_Input_w, pool_Input_h, pool_Coffset,
                   pool_Roffset, pool_TN_Enable, pool_tmp, pool_tap, pool_out>>
    /\ UNCHANGED notPool

\* pool_yolo2: one kernel tap (i, j)
PoolTap ==
    /\ pool_pc = "loaded" /\ pool_tap \in Taps
    /\ LET i == TapRow(pool_tap)
           j == TapCol(pool_tap)
           t0 == IF i = 0 /\ j = 0 THEN PoolSentinel(pool_mode) ELSE pool_tmp
           t1 == IF pool_ibuf[i][j] > t0 THEN pool_ibuf[i][j] ELSE t0
       IN  /\ pool_tmp' = t1
           /\ pool_out' = IF i = 1 /\ j = 1 THEN t1 ELSE pool_out
    /\ pool_tap' = pool_tap + 1
    /\ pool_pc' = IF pool_tap + 1 = PoolKsize * PoolKsize THEN "done" ELSE "loaded"
    /\ UNCHANGED <<pool_mode, pool_image, pool_Input_w, pool_Input_h, pool_Coffset,
                   pool_Roffset, pool_TN_Enable, pool_ibuf>>
    /\ UNCHANGED notPool

PoolNext == PoolLoad \/ PoolTap

----------------------------------------------------------------------------
\* DMA buffer manager (dma_buffer_manager.c): udmabuf devices mapped into the
\* process, the table of tracked blocks, and the virtual-to-physical lookup.
MAX_DMA_BUFFERS == 2
MaxDevs == 3
MaxPages == 2
VirtPages == 3

\* sysconf(_SC_PAGESIZE)
PAGE_SIZE == 4096
\* the udmabuf devices of the board: device d is d pages long, and the
\* devices lie one after the other in physical memory
Devices == 1..MaxDevs
PhysFirst == 16 * PAGE_SIZE
DevSize(d) == d * PAGE_SIZE
DevPhys(d) == PhysFirst + PAGE_SIZE * ((d * (d - 1)) \div 2)
\* where mmap can place a mapping
VirtFirst == 64 * PAGE_SIZE
VirtStarts == {VirtFirst + pg * PAGE_SIZE : pg \in 0..(VirtPages - 1)}
VirtEnd == VirtFirst + VirtPages * PAGE_SIZE
\* sizes asked for
ReqSizes == {(q - 1) * PAGE_SIZE + 1 : q \in 1..MaxPages} \cup {q * PAGE_SIZE : q \in 1..MaxPages}
\* pointers handed to the lookup
LookupPtrs == {v + off : v \in VirtStarts, off \in {0, 1, PAGE_SIZE - 1}}

AlignedSize(size) == ((size + PAGE_SIZE - 1) \div PAGE_SIZE) * PAGE_SIZE
\* find_udmabuf_device: a device that is large enough and not in dma_ctx
FreeDevices(tracked, aligned_size) ==
    {d \in Devices : /\ DevSize(d) >= aligned_size
                     /\ \A i \in 1..Len(tracked) : tracked[i].device_name # d}
\* mmap: a range that overlaps no live mapping
FreeStarts(tracked, aligned_size) ==
    {v \in VirtStarts : /\ v + aligned_size <= VirtEnd
                        /\ \A i \in 1..Len(tracked) :
                               \/ v + aligned_size <= tracked[i].virt_addr
                               \/ tracked[i].virt_addr + tracked[i].size <= v}
\* "Shift remaining": entry i removed, the later ones moved down
RemoveAt(tbl, i) == [k \in 1..(Len(tbl) - 1) |-> IF k < i THEN tbl[k] ELSE tbl[k + 1]]
FirstIndex(hits) == CHOOSE i \in hits : \A k \in hits : i <= k

memory_get_phys_addr_Base(tbl, virt_addr) ==
    LET hits == {i \in 1..Len(tbl) : /\ virt_addr >= tbl[i].ptr
                                      /\ virt_addr < tbl[i].ptr + tbl[i].size}
    IN  IF hits # {}
          THEN tbl[FirstIndex(hits)].phys_addr
          ELSE virt_addr
memory_get_phys_addr(tbl, virt_addr) ==
    LET hits == {i \in 1..Len(tbl) : /\ virt_addr >= tbl[i].ptr
                                      /\ virt_addr < tbl[i].ptr + tbl[i].size}
    IN  IF hits # {}
          THEN tbl[FirstIndex(hits)].phys_addr + (virt_addr - tbl[FirstIndex(hits)].ptr)
          ELSE virt_addr

MemInit ==
    /\ SchedIdle /\ PlanIdle /\ SeqIdle /\ DrvIdle /\ CacheIdle /\ RescaleIdle /\ PoolIdle /\ KernIdle /\ ShiftIdle /\ LoopIdle /\ DmaIdle /\ StreamIdle
    /\ dma_ctx_buffers = <<>> /\ mem_ctx_buffers = <<>> /\ mem_ctx_dma = <<>>
    /\ mem_live = {} /\ mem_last = "none" /\ mem_freed = FALSE
    /\ lookup_p = 0 /\ lookup_ret = 0

\* the lookup's argument and result are forgotten at the next call
NoLookup == lookup_p' = 0 /\ lookup_ret' = 0

\* memory_allocate_ddr with dma_buffer_alloc: a device is found, opened and
\* mapped, and the block is entered in both tables
MemAllocate ==
    /\ \E size \in ReqSizes :
         LET aligned_size == AlignedSize(size) IN
         /\ Len(mem_ctx_buffers) < MAX_DMA_BUFFERS
         /\ Len(dma_ctx_buffers) < MAX_DMA_BUFFERS
         /\ \E d \in FreeDevices(dma_ctx_buffers, aligned_size) :
            \E mapped \in FreeStarts(dma_ctx_buffers, aligned_size) :
              LET dma_buf == [virt_addr |-> mapped, phys_addr |-> DevPhys(d),
                              size |-> aligned_size, device_name |-> d]
                  buffer == [ptr |-> dma_buf.virt_addr, size |-> dma_buf.size,
                             phys_addr |-> dma_buf.phys_addr]
              IN  /\ dma_ctx_buffers' = Append(dma_ctx_buffers, dma_buf)
                  /\ mem_ctx_buffers' = Append(mem_ctx_buffers, buffer)
                  /\ mem_ctx_dma' = Append(mem_ctx_dma, dma_buf)
                  /\ mem_live' = mem_live \cup {buffer}
    /\ mem_last' = "allocated"
    /\ NoLookup
    /\ UNCHANGED mem_freed
    /\ UNCHANGED notMem

\* memory_allocate_ddr returning -1: table full, no device, or mmap failed
MemAllocateFail ==
    /\ \E size \in ReqSizes :
         LET aligned_size == AlignedSize(size) IN
         \/ Len(mem_ctx_buffers) >= MAX_DMA_BUFFERS
         \/ Len(dma_ctx_buffers) >= MAX_DMA_BUFFERS
         \/ FreeDevices(dma_ctx_buffers, aligned_size) = {}
         \/ FreeStarts(dma_ctx_buffers, aligned_size) = {}
    /\ mem_last' = "alloc_failed"
    /\ NoLookup
    /\ UNCHANGED <<dma_ctx_buffers, mem_ctx_buffers, mem_ctx_dma, mem_live, mem_freed>>
    /\ UNCHANGED notMem

\* memory_free_ddr with dma_buffer_free, on a buffer the caller holds
MemFree ==
    /\ \E buffer \in mem_live :
         LET hits == {i \in 1..Len(mem_ctx_buffers) : mem_ctx_buffers[i].ptr = buffer.ptr}
         IN  /\ IF hits # {}
                  THEN LET i == FirstIndex(hits)
                           dhits == {k \in 1..Len(dma_ctx_buffers) :
                                        dma_ctx_buffers[k].virt_addr = mem_ctx_dma[i].virt_addr}
                       IN  /\ dma_ctx_buffers' =
                                 IF dhits # {}
                                   THEN RemoveAt(dma_ctx_buffers, FirstIndex(dhits))
                                   ELSE dma_ctx_buffers
                           /\ mem_ctx_buffers' = RemoveAt(mem_ctx_buffers, i)
                           /\ mem_ctx_dma' = RemoveAt(mem_ctx_dma, i)
                  ELSE UNCHANGED <<dma_ctx_buffers, mem_ctx_buffers, mem_ctx_dma>>
             /\ mem_live' = mem_live \ {buffer}
    /\ mem_last' = "freed"
    /\ mem_freed' = TRUE
    /\ NoLookup
    /\ UNCHANGED notMem

\* memory_get_phys_addr on any pointer
MemLookup ==
    /\ \E virt_addr \in LookupPtrs :
         /\ lookup_p' = virt_addr
         /\ lookup_ret' = memory_get_phys_addr(mem_ctx_buffers, virt_addr)
    /\ mem_last' = "looked_up"
    /\ UNCHANGED <<dma_ctx_buffers, mem_ctx_buffers, mem_ctx_dma, mem_live, mem_freed>>
    /\ UNCHANGED notMem

MemNext == MemAllocate \/ MemAllocateFail \/ MemFree \/ MemLookup

----------------------------------------------------------------------------
\* Convolution kernel (INT16_MODE): YOLO2_FPGA's bias copy, the n loop of
\* intra_pingpong_wrapper, weight_load_reorg, input_load and compute, followed
\* one output element of the tile (tr = tc = 0).  The overlap of a tile's
\* write-back with the next tile's computation is in the scheduler component.
MaxKernLayers == 1
MaxKsize == 2

KernJobs ==
    { [IFM_num |-> ch, OFM_num |-> f, Ksize |-> sz, TM |-> MIN(f, Tm), TN |-> MIN(ch, Tn),
       Qb |-> qb, Qa_out |-> qo] :
         ch \in 1..MaxChannels, f \in 1..MaxFilters, sz \in 1..MaxKsize,
         qb \in {3}, qo \in {2} }

\* weight_load_reorg: every [t1][t2] of the taps below Ksize is written, with the
\* next weight of the stream inside TM_MIN x TN_MIN and with 0 outside
weight_load_reorg(wb, lid, mofs, nofs, Ksize, TMm, TNm) ==
    [t1 \in 0..(Tm - 1) |-> [t2 \in 0..(Tn - 1) |-> [t3 \in 0..(K - 1) |-> [t4 \in 0..(K - 1) |->
        IF t3 < Ksize /\ t4 < Ksize
          THEN IF t1 < TMm /\ t2 < TNm
                 THEN [lid |-> lid, m |-> mofs, n |-> nofs,
                       t1 |-> t1, t2 |-> t2, t3 |-> t3, t4 |-> t4]
                 ELSE ZeroW
          ELSE wb[t1][t2][t3][t4]]]]]

\* input_load with LayerType 0: channel t1 of the group, or pad_value = 0 at and
\* beyond TN_MIN
KernInputLoad(lid, nofs, TNm) ==
    [t1 \in 0..(Tn - 1) |-> IF t1 < TNm THEN [lid |-> lid, ch |-> nofs + t1] ELSE ZeroI]

\* compute with enable off: local_beta_buffer[tm] = beta_buffer[m + tm], tm < TM_MIN
CacheBias(lb, beta, mofs, TMm) ==
    [tm \in 0..(Tm - 1) |-> IF tm < TMm THEN beta[mofs + tm] ELSE lb[tm]]

\* use_bias_init of compute
use_bias_init_AnyGroup(i, j, first_input_tile) == (i = 0) /\ (j = 0)
use_bias_init(i, j, first_input_tile) == (i = 0) /\ (j = 0) /\ first_input_tile

\* one (i, j) step of compute for output channel tm: base, partial sum, sum
ComputeTap(ov, lb, wb, ib, i, j, first_input_tile, shift_bias, tm) ==
    LET base == IF use_bias_init(i, j, first_input_tile)
                  THEN [bias |-> [src |-> lb[tm], shift |-> shift_bias], terms |-> {},
                        twice |-> FALSE]
                  ELSE ov[tm]
        partial_sum == {[w |-> wb[tm][tn][i][j], x |-> ib[tn], i |-> i, j |-> j] :
                          tn \in {t \in 0..(Tn - 1) : wb[tm][t][i][j] # ZeroW /\ ib[t] # ZeroI}}
    IN  [bias |-> base.bias, terms |-> base.terms \cup partial_sum,
         twice |-> base.twice \/ (base.terms \cap partial_sum # {})]

\* the i, j loops of compute, from tap t on (tap t is i = t / Ksize, j = t % Ksize)
RECURSIVE compute(_, _, _, _, _, _, _, _)
compute(ov, lb, wb, ib, Ksize, first_input_tile, shift_bias, t) ==
    IF t >= Ksize * Ksize
      THEN ov
      ELSE compute([tm \in 0..(Tm - 1) |->
                       ComputeTap(ov, lb, wb, ib, t \div Ksize, t % Ksize,
                                  first_input_tile, shift_bias, tm)],
                   lb, wb, ib, Ksize, first_input_tile, shift_bias, t + 1)

KernTM_MIN == MIN(kn_job.TM, kn_job.OFM_num - kn_m)

KernInit ==
    /\ SchedIdle /\ PlanIdle /\ SeqIdle /\ DrvIdle /\ CacheIdle /\ RescaleIdle /\ PoolIdle /\ MemIdle /\ ShiftIdle /\ LoopIdle /\ DmaIdle /\ StreamIdle
    /\ kn_pc = "idle" /\ kn_layers = 0 /\ kn_job = NoKernJob /\ kn_m = 0
    /\ kn_n = 0 /\ kn_pingpong = 0 /\ kn_n0 = 0 /\ kn_n1 = 0
    /\ kn_osel = 0 /\ kn_loaded = -1 /\ kn_store = <<>>
    /\ KernZeroed

\* YOLO2_FPGA entry for a convolution: memcpy(beta_buffer, Beta, OFM_num), m = 0
KernLayer ==
    /\ kn_pc = "idle" /\ kn_layers < MaxKernLayers
    /\ \E j \in KernJobs :
         /\ kn_job' = j
         /\ kn_beta' = [ch \in 0..(MaxBeta - 1) |->
                           IF ch < j.OFM_num THEN [lid |-> kn_layers + 1, ch |-> ch]
                                             ELSE kn_beta[ch]]
    /\ kn_layers' = kn_layers + 1 /\ kn_m' = 0 /\ kn_osel' = 1 /\ kn_pc' = "tile"
    /\ kn_loaded' = -1 /\ kn_store' = <<>>
    /\ UNCHANGED <<kn_n, kn_pingpong, kn_n0, kn_n1, kn_lbeta, kn_wbuf, kn_ibuf, kn_obuf>>
    /\ UNCHANGED notKern

\* the m loop test and the entry of intra_pingpong_wrapper for one tile
KernTile ==
    /\ kn_pc = "tile"
    /\ IF kn_m < kn_job.OFM_num
         THEN /\ kn_n' = 0 /\ kn_pingpong' = 0 /\ kn_pc' = "n_loop"
              /\ \E g0 \in Garbage, g1 \in Garbage : kn_n0' = g0 /\ kn_n1' = g1
         ELSE /\ kn_pc' = "idle"
              /\ UNCHANGED <<kn_n, kn_pingpong, kn_n0, kn_n1>>
    /\ kn_loaded' = -1 /\ kn_store' = <<>>
    /\ UNCHANGED <<kn_layers, kn_job, kn_m, kn_beta, kn_lbeta, kn_wbuf, kn_ibuf, kn_obuf,
                   kn_osel>>
    /\ UNCHANGED notKern

\* one iteration of for(n = 0; n < IFM_num+TN; n += TN): copy_input_weight into
\* one buffer pair, compute on the other pair
KernIter ==
    /\ kn_pc = "n_loop"
    /\ IF kn_n < kn_job.IFM_num + kn_job.TN
         THEN LET ld == ConvLoadSel(kn_pingpong)
                  cp == ConvComputeSel(kn_pingpong)
                  ldEn == kn_n < kn_job.IFM_num
                  cpEn == kn_n # 0
                  TN_MIN == MIN(kn_job.TN, kn_job.IFM_num - kn_n)
                  ib == IF ldEn
                          THEN [kn_ibuf EXCEPT ![ld] = KernInputLoad(kn_layers, kn_n, TN_MIN)]
                          ELSE kn_ibuf
                  wb == IF ldEn
                          THEN [kn_wbuf EXCEPT ![ld] =
                                  weight_load_reorg(kn_wbuf[ld], kn_layers, kn_m, kn_n,
                                                    kn_job.Ksize, KernTM_MIN, TN_MIN)]
                          ELSE kn_wbuf
                  h0 == IF ldEn /\ ld = 0 THEN kn_n ELSE kn_n0
                  h1 == IF ldEn /\ ld = 1 THEN kn_n ELSE kn_n1
                  nh == IF cp = 0 THEN h0 ELSE h1
              IN  /\ kn_ibuf' = ib /\ kn_wbuf' = wb /\ kn_n0' = h0 /\ kn_n1' = h1
                  /\ kn_loaded' = IF ldEn THEN ld ELSE -1
                  /\ IF cpEn
                       THEN /\ kn_obuf' = [kn_obuf EXCEPT ![kn_osel] =
                                   compute(kn_obuf[kn_osel], kn_lbeta, wb[cp], ib[cp],
                                           kn_job.Ksize, nh = 0,
                                           kn_job.Qb - kn_job.Qa_out, 0)]
                            /\ UNCHANGED kn_lbeta
                       ELSE /\ kn_lbeta' = CacheBias(kn_lbeta, kn_beta, kn_m, KernTM_MIN)
                            /\ UNCHANGED kn_obuf
                  /\ kn_pingpong' = 1 - kn_pingpong /\ kn_n' = kn_n + kn_job.TN
                  /\ kn_pc' = kn_pc
         ELSE /\ kn_pc' = "write" /\ kn_loaded' = -1
              /\ UNCHANGED <<kn_n, kn_pingpong, kn_n0, kn_n1, kn_lbeta, kn_wbuf, kn_ibuf,
                             kn_obuf>>
    /\ UNCHANGED <<kn_layers, kn_job, kn_m, kn_beta, kn_osel, kn_store>>
    /\ UNCHANGED notKern

\* write_back_output_reorg of the tile: channels m .. m + TM_MIN - 1 are stored
KernWrite ==
    /\ kn_pc = "write"
    /\ kn_store' = [tm \in 0..(KernTM_MIN - 1) |-> kn_obuf[kn_osel][tm]]
    /\ kn_m' = kn_m + kn_job.TM /\ kn_osel' = 1 - kn_osel /\ kn_pc' = "tile"
    /\ UNCHANGED <<kn_layers, kn_job, kn_n, kn_pingpong, kn_n0, kn_n1, kn_beta, kn_lbeta,
                   kn_wbuf, kn_ibuf, kn_obuf, kn_loaded>>
    /\ UNCHANGED notKern

KernNext == KernLayer \/ KernTile \/ KernIter \/ KernWrite

----------------------------------------------------------------------------
\* The fixed-point rescale sites: the bias and the partial-sum rescale of
\* compute (int64_t operands), and the alignment of the reorg branch in
\* yolov2_hls_ps and in yolo2_execute_reorg_layer (int32_t operands).
MaxQ == 3
\* width of the operand of the alignment shift (int32_t v)
INT32_BITS == 32

\* Q table entries are int32_t read from a file: small ones and large ones
SiteQs == (0..MaxQ) \cup {INT32_BITS + 1, 2 * INT32_BITS + 6}
SiteValues == {-MaxValue, -1, 3, 32767}
Clamp16(x) == IF x > 32767 THEN 32767 ELSE IF x < -32768 THEN -32768 ELSE x
\* x << mag for |x| < 2^15 on a wide operand, then the int16 clamp
ShlClamp16(x, mag) ==
    IF x = 0 THEN 0
    ELSE IF mag >= 16 THEN (IF x > 0 THEN 32767 ELSE -32768)
    ELSE Clamp16(x * Pow2(mag))
\* x >> mag, arithmetic, for |x| < 2^31 and mag below the operand width
Shr(x, mag) == IF mag >= INT32_BITS - 1 THEN (IF x < 0 THEN -1 ELSE 0) ELSE x \div Pow2(mag)
\* v >> amount on int32_t: undefined at and beyond the width; builds either
\* use the low five bits of the amount or fill with the sign
ShrInt32(v, amount) ==
    IF amount < INT32_BITS THEN {Shr(v, amount)}
    ELSE {Shr(v, amount % INT32_BITS), IF v < 0 THEN -1 ELSE 0}

ShiftInit ==
    /\ SchedIdle /\ PlanIdle /\ SeqIdle /\ DrvIdle /\ CacheIdle /\ RescaleIdle /\ PoolIdle /\ MemIdle /\ KernIdle /\ LoopIdle /\ DmaIdle /\ StreamIdle
    /\ sh_pc = "in"
    /\ sh_site \in {"kernel_bias", "kernel_out", "align_hls", "align_linux"}
    /\ sh_q \in [Qw : SiteQs, Qa_in : SiteQs, Qa_out : SiteQs, Qb : SiteQs,
                 current_Qa : SiteQs, route24_q : SiteQs]
    /\ sh_site = "kernel_bias" =>
          sh_q.Qw = 0 /\ sh_q.Qa_in = 0 /\ sh_q.current_Qa = 0 /\ sh_q.route24_q = 0
    /\ sh_site = "kernel_out" =>
          sh_q.Qb = 0 /\ sh_q.current_Qa = 0 /\ sh_q.route24_q = 0
    /\ sh_site \in {"align_hls", "align_linux"} =>
          sh_q.Qw = 0 /\ sh_q.Qa_in = 0 /\ sh_q.Qa_out = 0 /\ sh_q.Qb = 0
    /\ sh_v \in SiteValues
    /\ sh_dir = "none" /\ sh_amount = 0 /\ sh_out = 0

\* compute: base from the bias, shift_bias = Qb - Qa_out (partial sum zero)
SiteKernelBias ==
    /\ sh_pc = "in" /\ sh_site = "kernel_bias"
    /\ LET shift_bias == sh_q.Qb - sh_q.Qa_out
           bias_shift_mag == ShiftMag(shift_bias)
       IN  /\ sh_dir' = IF shift_bias > 0 THEN "right" ELSE IF shift_bias < 0 THEN "left" ELSE "none"
           /\ sh_amount' = bias_shift_mag
           /\ sh_out' = IF shift_bias >= 0 THEN Clamp16(Rescale(sh_v, shift_bias))
                                           ELSE ShlClamp16(sh_v, bias_shift_mag)
    /\ sh_pc' = "done"
    /\ UNCHANGED <<sh_site, sh_q, sh_v>>
    /\ UNCHANGED notShift

\* compute: scaled from the partial sum, shift_out = Qa_in + Qw - Qa_out (base zero)
SiteKernelOut ==
    /\ sh_pc = "in" /\ sh_site = "kernel_out"
    /\ LET shift_out == sh_q.Qa_in + sh_q.Qw - sh_q.Qa_out
           out_shift_mag == ShiftMag(shift_out)
       IN  /\ sh_dir' = IF shift_out > 0 THEN "right" ELSE IF shift_out < 0 THEN "left" ELSE "none"
           /\ sh_amount' = out_shift_mag
           /\ sh_out' = IF shift_out >= 0 THEN Clamp16(Rescale(sh_v, shift_out))
                                         ELSE ShlClamp16(sh_v, out_shift_mag)
    /\ sh_pc' = "done"
    /\ UNCHANGED <<sh_site, sh_q, sh_v>>
    /\ UNCHANGED notShift

\* the alignment of the reorg branch: shift = current_Qa - min(route24_q, current_Qa),
\* v >>= shift, clamp
AlignShift(guard) ==
    LET target_q == MIN(sh_q.route24_q, sh_q.current_Qa)
        shift == sh_q.current_Qa - target_q
    IN  IF guard /\ shift # 0
          THEN /\ sh_dir' = IF shift > 0 THEN "right" ELSE "left"
               /\ sh_amount' = IF shift > 0 THEN shift ELSE -shift
               /\ IF shift > 0
                    THEN \E w \in ShrInt32(sh_v, shift) : sh_out' = Clamp16(w)
                    ELSE sh_out' = ShlClamp16(sh_v, -shift)
          ELSE sh_dir' = "none" /\ sh_amount' = 0 /\ sh_out' = sh_v

\* yolov2_hls_ps, case REORG
SiteAlignHls ==
    /\ sh_pc = "in" /\ sh_site = "align_hls"
    /\ AlignShift(sh_q.route24_q > 0)
    /\ sh_pc' = "done"
    /\ UNCHANGED <<sh_site, sh_q, sh_v>>
    /\ UNCHANGED notShift

\* yolo2_execute_reorg_layer with yolo2_apply_q_shift_int16
SiteAlignLinux ==
    /\ sh_pc = "in" /\ sh_site = "align_linux"
    /\ AlignShift(sh_q.route24_q > 0 /\ sh_q.current_Qa > 0)
    /\ sh_pc' = "done"
    /\ UNCHANGED <<sh_site, sh_q, sh_v>>
    /\ UNCHANGED notShift

ShiftNext == SiteKernelBias \/ SiteKernelOut \/ SiteAlignHls \/ SiteAlignLinux

----------------------------------------------------------------------------
\* Tile loops of one convolution run on the device: the r, c, m loops of YOLO2_FPGA
\* and the n loop of intra_pingpong_wrapper.  On the device the assert() lines are
\* range hints only, so a run that was started goes through the loops whatever the
\* register values are.

\* the assert() lines at the head of YOLO2_FPGA
YOLO2_FPGA_asserts(j) ==
    /\ j.ofm_num > 0 /\ j.ofm_num <= 2048
    /\ j.ifm_num > 0 /\ j.ifm_num <= 2048
    /\ j.kstride > 0 /\ j.kstride <= S
    /\ j.ksize > 0 /\ j.ksize <= K
    /\ j.input_w > 0 /\ j.input_w <= 1024
    /\ j.input_h > 0 /\ j.input_h <= 1024
    /\ j.output_w > 0 /\ j.output_w <= 1024
    /\ j.output_h > 0 /\ j.output_h <= 1024
    /\ j.padding >= 0 /\ j.padding <= 4
    /\ j.tm > 0 /\ j.tm <= Tm
    /\ j.tn >= 0 /\ j.tn <= Tn
    /\ j.tr > 0 /\ j.tr <= Tr
    /\ j.tc > 0 /\ j.tc <= Tc

\* argument sets offered to yolo2_execute_conv_layer, some of them out of range
LoopInputs ==
    {[GoodConv EXCEPT !.ifm_num = a, !.ofm_num = b, !.tm = tmv, !.tn = tnv,
                      !.output_h = h, !.output_w = h, !.input_h = h, !.input_w = h,
                      !.ksize = 1, !.padding = 0] :
        a \in 1..MaxChannels, b \in 1..MaxFilters, tmv \in 0..(Tm + 1),
        tnv \in (-1)..(Tn + 1), h \in 1..MaxPlane}
\* the argument sets that pass the driver's test and the kernel's assertions
LoopJobs == {j \in LoopInputs : validate_conv_params(j) /\ YOLO2_FPGA_asserts(j)}
\* OFM_num_bound and mLoopsxTM as the sequencer computes them for a convolution
LoopBound(j) == ConvBound(CeilDiv(j.ofm_num, j.tm), j.tm)
LoopDrain(j) == CeilDiv(j.ofm_num, j.tm) * j.tm

LoopInit ==
    /\ SchedIdle /\ PlanIdle /\ SeqIdle /\ DrvIdle /\ CacheIdle /\ RescaleIdle /\ PoolIdle /\ MemIdle /\ KernIdle /\ ShiftIdle /\ DmaIdle /\ StreamIdle
    /\ tl_pc = "idle" /\ tl_job = NoLoopJob
    /\ tl_r = 0 /\ tl_c = 0 /\ tl_m = 0 /\ tl_n = 0 /\ tl_pingpongm = 0 /\ tl_pingpong = 0

\* yolo2_execute_conv_layer accepts the arguments and writes ap_start; r = 0
LoopStart ==
    /\ tl_pc = "idle"
    /\ \E j \in LoopJobs : tl_job' = j
    /\ tl_r' = 0 /\ tl_pc' = "r_loop"
    /\ UNCHANGED <<tl_c, tl_m, tl_n, tl_pingpongm, tl_pingpong>>
    /\ UNCHANGED notLoop

\* for(r = 0; r < Output_h; r += TR): the loop test; leaving the loop ends the run
LoopRow ==
    /\ tl_pc = "r_loop"
    /\ IF tl_r < tl_job.output_h
         THEN tl_c' = 0 /\ tl_pc' = "c_loop"
         ELSE tl_pc' = "done" /\ UNCHANGED tl_c
    /\ UNCHANGED <<tl_job, tl_r, tl_m, tl_n, tl_pingpongm, tl_pingpong>>
    /\ UNCHANGED notLoop

\* for(c = 0; c < Output_w; c += TC): the loop test; pingpongm = 0; m = 0
LoopCol ==
    /\ tl_pc = "c_loop"
    /\ IF tl_c < tl_job.output_w
         THEN tl_m' = 0 /\ tl_pingpongm' = 0 /\ tl_pc' = "m_loop" /\ UNCHANGED tl_r
         ELSE tl_r' = tl_r + tl_job.tr /\ tl_pc' = "r_loop" /\ UNCHANGED <<tl_m, tl_pingpongm>>
    /\ UNCHANGED <<tl_job, tl_c, tl_n, tl_pingpong>>
    /\ UNCHANGED notLoop

\* for(m = 0; m < OFM_num_bound; m += TM): the loop test and the entry of
\* intra_pingpong_wrapper, which returns at once when input_flag is off
LoopChan ==
    /\ tl_pc = "m_loop"
    /\ IF tl_m < LoopBound(tl_job)
         THEN IF tl_m # LoopDrain(tl_job)
                THEN /\ tl_n' = 0 /\ tl_pingpong' = 0 /\ tl_pc' = "n_loop"
                     /\ UNCHANGED <<tl_c, tl_m, tl_pingpongm>>
                ELSE /\ tl_m' = tl_m + tl_job.tm /\ tl_pingpongm' = 1 - tl_pingpongm
                     /\ UNCHANGED <<tl_c, tl_n, tl_pingpong, tl_pc>>
         ELSE /\ tl_c' = tl_c + tl_job.tc /\ tl_pc' = "c_loop"
              /\ UNCHANGED <<tl_m, tl_n, tl_pingpongm, tl_pingpong>>
    /\ UNCHANGED <<tl_job, tl_r>>
    /\ UNCHANGED notLoop

\* for(n = 0; n < IFM_num+TN; n += TN): one iteration (load one buffer, compute on
\* the other, flip pingpong), or the exit back to the m loop after the write-back
LoopIter ==
    /\ tl_pc = "n_loop"
    /\ IF tl_n < tl_job.ifm_num + tl_job.tn
         THEN /\ tl_pingpong' = 1 - tl_pingpong
              /\ tl_n' = tl_n + tl_job.tn
              /\ UNCHANGED <<tl_m, tl_pingpongm, tl_pc>>
         ELSE /\ tl_m' = tl_m + tl_job.tm /\ tl_pingpongm' = 1 - tl_pingpongm
              /\ tl_pc' = "m_loop"
              /\ UNCHANGED <<tl_n, tl_pingpong>>
    /\ UNCHANGED <<tl_job, tl_r, tl_c>>
    /\ UNCHANGED notLoop

LoopNext == LoopStart \/ LoopRow \/ LoopCol \/ LoopChan \/ LoopIter

----------------------------------------------------------------------------
\* The DMA buffer table driven through its own interface: dma_buffer_alloc,
\* dma_buffer_free on the caller's copy, and dma_buffer_cleanup, which hands
\* dma_buffer_free the table's own entries.

\* memset(buffer, 0, sizeof(dma_buffer_t))
ZeroDma == [virt_addr |-> 0, phys_addr |-> 0, size |-> 0, device_name |-> 0]
\* mmap: a range that overlaps no open mapping
DmaFreeStarts(open, aligned_size) ==
    {v \in VirtStarts : /\ v + aligned_size <= VirtEnd
                        /\ \A b \in open : \/ v + aligned_size <= b.virt_addr
                                           \/ b.virt_addr + b.size <= v}

\* dma_buffer_free(&dma_ctx.buffers[i]): st = [tbl, count, released]; the entry is
\* unmapped and closed, the first entry with its virt_addr is removed by shifting
\* the later ones down, and the memory the argument points to - slot i of the
\* table - is zeroed
dma_buffer_free(st, i) ==
    LET buffer == st.tbl[i]
        hits == {k \in 1..st.count : st.tbl[k].virt_addr = buffer.virt_addr}
        at == FirstIndex(hits)
        shifted == [x \in 1..Len(st.tbl) |->
                        IF x >= at /\ x < st.count THEN st.tbl[x + 1] ELSE st.tbl[x]]
    IN  [tbl |-> [(IF hits # {} THEN shifted ELSE st.tbl) EXCEPT ![i] = ZeroDma],
         count |-> IF hits # {} THEN st.count - 1 ELSE st.count,
         released |-> st.released \cup {buffer}]

\* for (int i = 0; i < dma_ctx.count; i++) if (dma_ctx.buffers[i].virt_addr) dma_buffer_free(...)
RECURSIVE dma_buffer_cleanup(_, _)
dma_buffer_cleanup(st, i) ==
    IF i > st.count THEN st
    ELSE IF st.tbl[i].virt_addr # 0
           THEN dma_buffer_cleanup(dma_buffer_free(st, i), i + 1)
           ELSE dma_buffer_cleanup(st, i + 1)

DmaInit ==
    /\ SchedIdle /\ PlanIdle /\ SeqIdle /\ DrvIdle /\ CacheIdle /\ RescaleIdle /\ PoolIdle /\ MemIdle /\ KernIdle /\ ShiftIdle /\ LoopIdle /\ StreamIdle
    /\ dc_buffers = <<>> /\ dc_open = {} /\ dc_before = {} /\ dc_last = "none"

\* dma_buffer_alloc: a device that is large enough and not tracked is opened and
\* mapped, and a copy of the block is entered in the table
DmaAlloc ==
    /\ \E size \in ReqSizes :
         LET aligned_size == AlignedSize(size) IN
         /\ Len(dc_buffers) < MAX_DMA_BUFFERS
         /\ \E d \in FreeDevices(dc_buffers, aligned_size) :
            \E mapped \in DmaFreeStarts(dc_open, aligned_size) :
              LET buffer == [virt_addr |-> mapped, phys_addr |-> DevPhys(d),
                             size |-> aligned_size, device_name |-> d]
              IN  /\ dc_buffers' = Append(dc_buffers, buffer)
                  /\ dc_open' = dc_open \cup {buffer}
    /\ dc_last' = "allocated"
    /\ UNCHANGED dc_before
    /\ UNCHANGED notDma

\* dma_buffer_alloc returning -1: table full, no device, or mmap failed
DmaAllocFail ==
    /\ \E size \in ReqSizes :
         LET aligned_size == AlignedSize(size) IN
         \/ Len(dc_buffers) >= MAX_DMA_BUFFERS
         \/ FreeDevices(dc_buffers, aligned_size) = {}
         \/ DmaFreeStarts(dc_open, aligned_size) = {}
    /\ dc_last' = "alloc_failed"
    /\ UNCHANGED <<dc_buffers, dc_open, dc_before>>
    /\ UNCHANGED notDma

\* dma_buffer_free on the caller's own copy of a tracked block
DmaFree ==
    /\ \E i \in 1..Len(dc_buffers) :
         /\ dc_buffers[i] \in dc_open
         /\ dc_buffers' = RemoveAt(dc_buffers, i)
         /\ dc_open' = dc_open \ {dc_buffers[i]}
    /\ dc_last' = "freed"
    /\ UNCHANGED dc_before
    /\ UNCHANGED notDma

\* dma_buffer_cleanup: the loop over the table, then memset(&dma_ctx, 0, ...)
DmaCleanup ==
    /\ LET st == dma_buffer_cleanup([tbl |-> dc_buffers, count |-> Len(dc_buffers),
                                     released |-> {}], 1)
       IN  /\ dc_open' = dc_open \ st.released
           /\ dc_before' = {dc_buffers[i] : i \in 1..Len(dc_buffers)}
    /\ dc_buffers' = <<>>
    /\ dc_last' = "cleaned"
    /\ UNCHANGED notDma

DmaNext == DmaAlloc \/ DmaAllocFail \/ DmaFree \/ DmaCleanup

----------------------------------------------------------------------------
\* MJPEG streamer: yolo2_mjpeg_streamer_start, _update_rgb24 and _stop run on the
\* caller's thread, stream_thread runs beside them; every step between two
\* operations on the mutex or the condition variable is one action.
MaxUpdates == 2
MaxWidth == 2
MaxSpurious == 1

\* frames handed to update_rgb24: width x 1 pixels, tagged with the call's number
Frames == {[w |-> fw, h |-> 1] : fw \in 1..MaxWidth}
\* (size_t)width * (size_t)height * 3u
FrameBytes(fw, fh) == fw * fh * 3
\* why start can fail before the thread exists
EarlyFailures == {"port", "calloc", "mutex_init", "cond_init", "pthread_create"}

\* pthread_mutex_lock returns once nobody holds the mutex
mutex_free_Always(mu) == TRUE
mutex_free(mu) == mu = "free"
\* while (s->started == 0) pthread_cond_wait(&s->cv, &s->mu);
startup_pending_Never(started) == FALSE
startup_pending(started) == started = 0

StreamInit ==
    /\ SchedIdle /\ PlanIdle /\ SeqIdle /\ DrvIdle /\ CacheIdle /\ RescaleIdle /\ PoolIdle /\ MemIdle /\ KernIdle /\ ShiftIdle /\ LoopIdle /\ DmaIdle
    /\ strm = NoStreamer /\ caller = CallerIdle /\ thread = ThreadNone /\ sghost = GhostIdle

\* ---- caller: yolo2_mjpeg_streamer_start ----
\* *out = NULL; argument test, calloc, mutex/cond init and pthread_create, any of
\* which may fail and return -1 with nothing left allocated
StartCall ==
    /\ caller.pc = "idle"
    /\ \/ /\ \E why \in EarlyFailures :
               caller' = [caller EXCEPT !.pc = "returned", !.returned = TRUE, !.ret = -1,
                                        !.out = "NULL", !.from = why]
          /\ UNCHANGED <<strm, thread>>
       \/ /\ caller' = [caller EXCEPT !.pc = "start_lock", !.out = "NULL"]
          /\ strm' = NewStreamer
          /\ thread' = [ThreadNone EXCEPT !.pc = "server_start"]
    /\ UNCHANGED sghost
    /\ UNCHANGED notStream

\* pthread_mutex_lock before the wait loop, and again when pthread_cond_wait returns
StartLock ==
    /\ caller.pc = "start_lock" /\ mutex_free(strm.mu)
    /\ strm' = [strm EXCEPT !.mu = "caller"]
    /\ caller' = [caller EXCEPT !.pc = "start_check"]
    /\ UNCHANGED <<thread, sghost>>
    /\ UNCHANGED notStream

\* the loop test: wait (the mutex is released while waiting) or read started and unlock
StartCheck ==
    /\ caller.pc = "start_check"
    /\ IF startup_pending(strm.started)
         THEN caller' = [caller EXCEPT !.pc = "start_wait", !.woken = FALSE]
         ELSE caller' = [caller EXCEPT !.pc = "start_decide", !.started = strm.started]
    /\ strm' = [strm EXCEPT !.mu = "free"]
    /\ UNCHANGED <<thread, sghost>>
    /\ UNCHANGED notStream

\* pthread_cond_wait is woken by the broadcast
StartWake ==
    /\ caller.pc = "start_wait" /\ caller.woken
    /\ caller' = [caller EXCEPT !.pc = "start_lock", !.woken = FALSE]
    /\ UNCHANGED <<strm, thread, sghost>>
    /\ UNCHANGED notStream

\* pthread_cond_wait may wake with no broadcast
StartSpurious ==
    /\ caller.pc = "start_wait" /\ ~caller.woken /\ sghost.spur < MaxSpurious
    /\ caller' = [caller EXCEPT !.pc = "start_lock"]
    /\ sghost' = [sghost EXCEPT !.spur = @ + 1]
    /\ UNCHANGED <<strm, thread>>
    /\ UNCHANGED notStream

\* if (started != 1) { yolo2_mjpeg_streamer_stop(s); return -1; }  *out = s; return 0;
StartDecide ==
    /\ caller.pc = "start_decide"
    /\ IF caller.started # 1
         THEN caller' = [caller EXCEPT !.pc = "stop_lock", !.from = "start"]
         ELSE caller' = [caller EXCEPT !.pc = "running", !.returned = TRUE, !.ret = 0,
                                       !.out = "s"]
    /\ UNCHANGED <<strm, thread, sghost>>
    /\ UNCHANGED notStream

\* ---- caller: yolo2_mjpeg_streamer_update_rgb24 ----
\* entry with a valid frame; bytes is computed
UpdateCall ==
    /\ caller.pc = "running" /\ caller.updates < MaxUpdates
    /\ \E fr \in Frames :
         caller' = [caller EXCEPT !.pc = "upd_lock", !.updates = @ + 1,
                                  !.upd = [w |-> fr.w, h |-> fr.h, seq |-> caller.updates + 1]]
    /\ UNCHANGED <<strm, thread, sghost>>
    /\ UNCHANGED notStream

UpdateLock ==
    /\ caller.pc = "upd_lock" /\ mutex_free(strm.mu)
    /\ strm' = [strm EXCEPT !.mu = "caller"]
    /\ caller' = [caller EXCEPT !.pc = "upd_realloc"]
    /\ UNCHANGED <<thread, sghost>>
    /\ UNCHANGED notStream

\* if (bytes > s->rgb_cap) realloc, which may fail: unlock and return -1
UpdateRealloc ==
    /\ caller.pc = "upd_realloc"
    /\ LET bytes == FrameBytes(caller.upd.w, caller.upd.h) IN
       IF bytes > strm.rgb_cap
         THEN \E p \in BOOLEAN :
                IF p
                  THEN /\ strm' = [strm EXCEPT !.rgb_cap = bytes,
                                               !.rgb = IF @ = NoData THEN Torn ELSE @]
                       /\ caller' = [caller EXCEPT !.pc = "upd_copy"]
                       /\ sghost' = [sghost EXCEPT !.busy = TRUE]
                  ELSE /\ strm' = [strm EXCEPT !.mu = "free"]
                       /\ caller' = [caller EXCEPT !.pc = "running"]
                       /\ UNCHANGED sghost
         ELSE /\ caller' = [caller EXCEPT !.pc = "upd_copy"]
              /\ sghost' = [sghost EXCEPT !.busy = TRUE]
              /\ UNCHANGED strm
    /\ UNCHANGED thread
    /\ UNCHANGED notStream

\* memcpy(s->rgb, rgb, bytes): first part of the bytes
UpdateCopy ==
    /\ caller.pc = "upd_copy"
    /\ strm' = [strm EXCEPT !.rgb = Torn]
    /\ caller' = [caller EXCEPT !.pc = "upd_copy_end"]
    /\ UNCHANGED <<thread, sghost>>
    /\ UNCHANGED notStream

\* memcpy: the rest of the bytes; s->width = width
UpdateCopyEnd ==
    /\ caller.pc = "upd_copy_end"
    /\ strm' = [strm EXCEPT !.rgb = caller.upd, !.width = caller.upd.w]
    /\ caller' = [caller EXCEPT !.pc = "upd_fields"]
    /\ UNCHANGED <<thread, sghost>>
    /\ UNCHANGED notStream

\* s->height = height; s->has_frame = 1; unlock; return 0
UpdateFields ==
    /\ caller.pc = "upd_fields"
    /\ strm' = [strm EXCEPT !.height = caller.upd.h, !.has_frame = 1, !.mu = "free"]
    /\ caller' = [caller EXCEPT !.pc = "running"]
    /\ sghost' = [sghost EXCEPT !.busy = FALSE]
    /\ UNCHANGED thread
    /\ UNCHANGED notStream

\* ---- caller: yolo2_mjpeg_streamer_stop ----
StopCall ==
    /\ caller.pc = "running"
    /\ caller' = [caller EXCEPT !.pc = "stop_lock", !.from = "user"]
    /\ UNCHANGED <<strm, thread, sghost>>
    /\ UNCHANGED notStream

StopLock ==
    /\ caller.pc = "stop_lock" /\ mutex_free(strm.mu)
    /\ strm' = [strm EXCEPT !.mu = "caller"]
    /\ caller' = [caller EXCEPT !.pc = "stop_set"]
    /\ UNCHANGED <<thread, sghost>>
    /\ UNCHANGED notStream

\* s->stop = 1; unlock
StopSet ==
    /\ caller.pc = "stop_set"
    /\ strm' = [strm EXCEPT !.stop = 1, !.mu = "free"]
    /\ caller' = [caller EXCEPT !.pc = "join"]
    /\ UNCHANGED <<thread, sghost>>
    /\ UNCHANGED notStream

\* pthread_join returns when the thread has returned
StopJoin ==
    /\ caller.pc = "join" /\ thread.pc = "exited"
    /\ caller' = [caller EXCEPT !.pc = "stop_free"]
    /\ UNCHANGED <<strm, thread, sghost>>
    /\ UNCHANGED notStream

\* free(s->rgb); destroy cv and mu; free(s); start's failure path then returns -1
StopFree ==
    /\ caller.pc = "stop_free"
    /\ strm' = [NoStreamer EXCEPT !.stop = strm.stop, !.started = strm.started,
                                  !.listen = strm.listen]
    /\ sghost' = [sghost EXCEPT !.early_free = @ \/ thread.pc # "exited"]
    /\ IF caller.from = "start"
         THEN caller' = [caller EXCEPT !.pc = "returned", !.returned = TRUE, !.ret = -1]
         ELSE caller' = [caller EXCEPT !.pc = "stopped"]
    /\ UNCHANGED thread
    /\ UNCHANGED notStream

\* ---- stream_thread ----
\* yolo2_mjpeg_server_start: bind and listen, or fail
ThreadServerStart ==
    /\ thread.pc = "server_start"
    /\ \E listening \in BOOLEAN :
         /\ thread' = [thread EXCEPT !.pc = "report_lock", !.ok = listening]
         /\ strm' = [strm EXCEPT !.listen = listening]
    /\ UNCHANGED <<caller, sghost>>
    /\ UNCHANGED notStream

ThreadReportLock ==
    /\ thread.pc = "report_lock" /\ mutex_free(strm.mu)
    /\ strm' = [strm EXCEPT !.mu = "thread"]
    /\ thread' = [thread EXCEPT !.pc = "report"]
    /\ UNCHANGED <<caller, sghost>>
    /\ UNCHANGED notStream

\* s->started = 1 or -1; pthread_cond_broadcast wakes who is waiting now; unlock;
\* after a failure the thread returns
ThreadReport ==
    /\ thread.pc = "report"
    /\ strm' = [strm EXCEPT !.started = IF thread.ok THEN 1 ELSE -1, !.mu = "free"]
    /\ caller' = [caller EXCEPT !.woken = (caller.pc = "start_wait")]
    /\ thread' = [thread EXCEPT !.reported = TRUE,
                                !.pc = IF thread.ok THEN "loop_lock" ELSE "exited"]
    /\ UNCHANGED sghost
    /\ UNCHANGED notStream

ThreadLoopLock ==
    /\ thread.pc = "loop_lock" /\ mutex_free(strm.mu)
    /\ strm' = [strm EXCEPT !.mu = "thread"]
    /\ thread' = [thread EXCEPT !.pc = "loop_read"]
    /\ UNCHANGED <<caller, sghost>>
    /\ UNCHANGED notStream

\* stop, has_frame, w, h and bytes are read; on stop: unlock and leave the loop;
\* with a frame present the local buffer is grown if needed (realloc may fail)
ThreadLoopRead ==
    /\ thread.pc = "loop_read"
    /\ LET bytes == IF strm.has_frame # 0 THEN FrameBytes(strm.width, strm.height) ELSE 0
           rd == [thread EXCEPT !.stop = strm.stop, !.has_frame = strm.has_frame,
                                !.w = strm.width, !.h = strm.height, !.bytes = bytes]
       IN  IF strm.stop # 0
             THEN /\ thread' = [rd EXCEPT !.pc = "cleanup"]
                  /\ strm' = [strm EXCEPT !.mu = "free"]
             ELSE /\ UNCHANGED strm
                  /\ IF strm.has_frame # 0 /\ bytes > 0 /\ strm.rgb # NoData
                       THEN \E p \in BOOLEAN :
                              LET cap == IF bytes > thread.local_cap /\ p
                                           THEN bytes ELSE thread.local_cap
                              IN  IF cap >= bytes
                                    THEN thread' = [rd EXCEPT !.pc = "loop_copy",
                                                              !.local_cap = cap]
                                    ELSE thread' = [rd EXCEPT !.pc = "loop_unlock",
                                                              !.local_has = 0]
                       ELSE thread' = [rd EXCEPT !.pc = "loop_unlock"]
    /\ sghost' = [sghost EXCEPT !.racy = @ \/ sghost.busy]
    /\ UNCHANGED caller
    /\ UNCHANGED notStream

\* memcpy(local, s->rgb, bytes); local_w = w; local_h = h; local_has = 1
ThreadLoopCopy ==
    /\ thread.pc = "loop_copy"
    /\ thread' = [thread EXCEPT !.pc = "loop_unlock", !.local = strm.rgb,
                                !.copied = thread.bytes, !.local_w = thread.w,
                                !.local_h = thread.h, !.local_has = 1]
    /\ sghost' = [sghost EXCEPT !.racy = @ \/ sghost.busy]
    /\ UNCHANGED <<strm, caller>>
    /\ UNCHANGED notStream

ThreadLoopUnlock ==
    /\ thread.pc = "loop_unlock"
    /\ strm' = [strm EXCEPT !.mu = "free"]
    /\ thread' = [thread EXCEPT !.pc = "send"]
    /\ UNCHANGED <<caller, sghost>>
    /\ UNCHANGED notStream

\* yolo2_mjpeg_server_send_rgb24 of the local copy, or poll_accept; sleep_ms
ThreadSend ==
    /\ thread.pc = "send"
    /\ sghost' = IF thread.local_has # 0
                   THEN [sghost EXCEPT !.sent = [data |-> thread.local, w |-> thread.local_w,
                                                 h |-> thread.local_h, bytes |-> thread.copied]]
                   ELSE sghost
    /\ thread' = [thread EXCEPT !.pc = "loop_lock"]
    /\ UNCHANGED <<strm, caller>>
    /\ UNCHANGED notStream

\* free(local); yolo2_mjpeg_server_stop; return
ThreadCleanup ==
    /\ thread.pc = "cleanup"
    /\ thread' = [thread EXCEPT !.pc = "exited", !.local = NoData, !.local_cap = 0]
    /\ strm' = [strm EXCEPT !.listen = FALSE]
    /\ UNCHANGED <<caller, sghost>>
    /\ UNCHANGED notStream

\* the calls the program may or may not make
StreamCalls == StartCall \/ UpdateCall \/ StopCall \/ StartSpurious
\* the steps inside a call, which the caller's thread goes on to take
CallerSteps ==
    \/ StartLock \/ StartCheck \/ StartWake \/ StartDecide
    \/ UpdateLock \/ UpdateRealloc \/ UpdateCopy \/ UpdateCopyEnd \/ UpdateFields
    \/ StopLock \/ StopSet \/ StopJoin \/ StopFree
ThreadSteps ==
    \/ ThreadServerStart \/ ThreadReportLock \/ ThreadReport
    \/ ThreadLoopLock \/ ThreadLoopRead \/ ThreadLoopCopy \/ ThreadLoopUnlock
    \/ ThreadSend \/ ThreadCleanup
StreamNext == StreamCalls \/ CallerSteps \/ ThreadSteps

----------------------------------------------------------------------------
\* Specifications: one per component, the other components at rest.
SpecSched == SchedInit /\ [][SchedNext]_vars
SpecPlan == PlanInit /\ [][PlanNext]_vars
SpecSeq == SeqInit /\ [][SeqNext]_vars
SpecDrv == DrvInitState /\ [][DrvNext]_vars
SpecCache == CacheInit /\ [][CacheNext]_vars
SpecRescale == RescaleInit /\ [][RescaleNext]_vars
SpecPool == PoolInit /\ [][PoolNext]_vars
SpecMem == MemInit /\ [][MemNext]_vars
SpecKern == KernInit /\ [][KernNext]_vars
SpecShift == ShiftInit /\ [][ShiftNext]_vars
SpecLoop == LoopInit /\ [][LoopNext]_vars /\ WF_vars(LoopNext)
SpecDma == DmaInit /\ [][DmaNext]_vars
\* Both threads are scheduled.  A caller blocked in pthread_mutex_lock gets the mutex
\* although the thread takes it again and again: the thread sleeps at least 50 ms
\* (sleep_ms(interval_ms)) with the mutex free in every round of its loop.
SpecStream == StreamInit /\ [][StreamNext]_vars /\ SF_vars(CallerSteps) /\ WF_vars(ThreadSteps)

----------------------------------------------------------------------------
\* Properties of the tile scheduler.

mLoopsOf(j) == CeilDiv(j.OFM_num, j.TM)
RealTiles == IF job.TM > 0 THEN {k * job.TM : k \in 0..(mLoopsOf(job) - 1)} ELSE {}
Groups == IF job.LayerType = 0
            THEN {g \in 0..(job.IFM_num - 1) : g % job.TN = 0}
            ELSE {0}
RealKeys == {<<t, g>> : t \in RealTiles, g \in Groups}
WriteKeys == {<<t, 0>> : t \in RealTiles}

\* C1 (as stated): for every layer dispatched to the accelerator with OFM % TM = 0,
\* the output-channel loop runs exactly OFM/TM + 1 iterations per spatial tile.
C1_Original ==
    (pc = "tile_done" /\ job.OFM_num % job.TM = 0)
        => m \div job.TM = job.OFM_num \div job.TM + 1

\* C1 (amended): with OFM % TM = 0 the output-channel loop runs exactly OFM/TM + 1
\* iterations per spatial tile for a convolution layer (one drain iteration) and
\* exactly OFM/TM + 2 iterations for a max-pool layer (two drain iterations).
C1_IterationCount ==
    (pc = "tile_done" /\ job.OFM_num % job.TM = 0)
        => m \div job.TM = job.OFM_num \div job.TM + (IF job.LayerType = 0 THEN 1 ELSE 2)

C1_Witness ==
    /\ pc = "tile_done" /\ job.LayerType = 1 /\ job.OFM_num % job.TM = 0
    /\ job.OFM_num \div job.TM = 2 /\ m \div job.TM = 4 /\ calls = 2

\* C2: within one spatial tile every real output-channel tile is loaded exactly
\* once, processed exactly once and written back exactly once (for a convolution:
\* each of its input-channel groups is loaded and reduced exactly once); nothing is
\* loaded, processed or written back for an index that is not a real tile; a tile
\* is processed only after its load and written back only after its processing.
C2_CountsInv ==
    pc \in {"m_loop", "wrapper", "n_loop", "write", "tile_done"} =>
        /\ DOMAIN ldCnt \subseteq RealKeys /\ \A k \in DOMAIN ldCnt : ldCnt[k] = 1
        /\ DOMAIN prCnt \subseteq RealKeys /\ \A k \in DOMAIN prCnt : prCnt[k] = 1
        /\ DOMAIN wrCnt \subseteq WriteKeys /\ \A k \in DOMAIN wrCnt : wrCnt[k] = 1
        /\ pc = "tile_done" =>
              DOMAIN ldCnt = RealKeys /\ DOMAIN prCnt = RealKeys /\ DOMAIN wrCnt = WriteKeys

C2_Order ==
    /\ \A k \in DOMAIN prCnt' : Count(prCnt', k) > Count(prCnt, k) => Count(ldCnt, k) >= 1
    /\ \A k \in DOMAIN wrCnt' : Count(wrCnt', k) > Count(wrCnt, k) =>
            \A g \in Groups : Count(prCnt, <<k[1], g>>) >= 1

C2_ExactlyOnce == []C2_CountsInv /\ [][C2_Order]_vars

C2_Witness ==
    /\ pc = "tile_done" /\ job.LayerType = 1 /\ calls = 2 /\ r > 0
    /\ mLoopsOf(job) = 3 /\ job.OFM_num % job.TM # 0
    /\ DOMAIN wrCnt = WriteKeys

\* C3: a tile is never consumed before its load completes.  In every iteration
\* the buffer instance loaded differs from the one computed on, and every enabled
\* compute, pool and write-back call works on a buffer that holds exactly the tile
\* (call, spatial tile, channel offset, size) whose index and size it is handed.
ExpectedInput(x) ==
    [lid |-> calls, r |-> r, c |-> c, x |-> x,
     sz |-> MIN(IF job.LayerType = 0 THEN job.TN ELSE job.TM, job.IFM_num - x)]
ExpectedOutput(t, sz) ==
    IF job.LayerType = 0
      THEN [beta |-> [lid |-> calls, m |-> t, sz |-> sz],
            terms |-> {[w |-> [lid |-> calls, m |-> t, n |-> g], i |-> ExpectedInput(g)] :
                          g \in Groups}]
      ELSE [beta |-> [lid |-> 0, m |-> -1, sz |-> sz],
            terms |-> {[w |-> NoWeight, i |-> ExpectedInput(t)]}]

C3_LoadBeforeConsume ==
    /\ (lastLoad.on /\ lastProc.on) => lastLoad.sel # lastProc.sel
    /\ (lastProc.on /\ lastProc.at = <<calls, r, c>>) =>
          /\ lastProc.in = ExpectedInput(lastProc.x)
          /\ job.LayerType = 0 => lastProc.w = [lid |-> calls, m |-> lastProc.m, n |-> lastProc.x]
          /\ job.LayerType = 1 => lastProc.in.sz = lastProc.sz
          /\ lastProc.x \in (IF job.LayerType = 0 THEN Groups ELSE RealTiles)
    /\ (lastWrite.on /\ lastWrite.at = <<calls, r, c>>) =>
          /\ lastWrite.m \in RealTiles
          /\ lastWrite.sz = MIN(job.TM, job.OFM_num - lastWrite.m)
          /\ lastWrite.buf = ExpectedOutput(lastWrite.m, lastWrite.sz)

C3_Witness ==
    /\ calls = 2 /\ r > 0 /\ job.LayerType = 1 /\ pc = "m_loop"
    /\ lastProc.on /\ lastProc.x = job.TM /\ lastWrite.on /\ lastWrite.m = 0
    /\ lastLoad.on

----------------------------------------------------------------------------
\* Properties of the arena planner.

\* layers that run on a buffer pair (routes 25 and 28 get no pointers)
Executing == {x \in 0..(Len(net) - 1) : out_ptr[x] # NULL /\ in_ptr[x] # NULL}
\* the last layer that reads layer i's output: 26 reads 16 through route 25,
\* 29 reads 24 and 27 through route 28, every other layer is read by its successor
LastReader(i) == IF i = 16 THEN 26 ELSE IF i = 24 \/ i = 27 THEN 29 ELSE i + 1
InRange(x) == [lo |-> in_ptr[x], hi |-> in_ptr[x] + InFootprint(Layer(x))]
OutRange(x) == [lo |-> out_ptr[x], hi |-> out_ptr[x] + OutFootprint(Layer(x))]
Disjoint(a, b) == a.hi <= b.lo \/ b.hi <= a.lo
InArena(a) == Memory_top <= a.lo /\ a.hi <= Memory_bottom
\* the scratch space the list needs: the largest input + output pair of one layer
ExceedsCapacity ==
    \E x \in 0..(Len(net) - 1) :
        Layer(x).type \in {CONVOLUTIONAL, MAXPOOL, REORG}
        /\ InFootprint(Layer(x)) + OutFootprint(Layer(x)) > MEM_LEN

\* C4: once the planner has returned, for every layer its input range and its
\* output range are disjoint, and the output range of a layer is not overlapped
\* by the output range of any layer executing before the last layer that reads it.
C4_NoLiveOverlap ==
    plan_pc = "planned" =>
        /\ \A x \in Executing : Disjoint(InRange(x), OutRange(x))
        /\ \A i \in Executing : \A j \in Executing :
               (i < j /\ j < LastReader(i)) => Disjoint(OutRange(i), OutRange(j))

\* C5: a layer list needing more than the arena capacity makes planning fail
\* before any layer executes, and a successful plan holds no input or output
\* range outside the arena.
C5_CapacityFatal ==
    /\ ExceedsCapacity => (exec_i = 0 /\ ~(plan_pc = "planned" /\ plan_rc = 0))
    /\ (plan_pc = "planned" /\ plan_rc = 0) =>
           \A x \in Executing : InArena(InRange(x)) /\ InArena(OutRange(x))

----------------------------------------------------------------------------
\* Properties of the layer sequencers.

\* the layer whose output is cached as the concatenation branch
BranchLayer == 24
NoQ == -99
QRange == -2..12
\* the Q at which a stored sample is scaled
QOf(v) == IF \E q \in QRange : Quantize(q) = v
            THEN CHOOSE q \in QRange : Quantize(q) = v ELSE NoQ
\* a convolution was handed to the backend in this step
ConvIssued == seq_pc = "run" /\ lastJob' # lastJob
\* this step runs a layer of kind kd
StepOf(kd) == seq_pc = "run" /\ layer_i < NumLayers /\ Kind(layer_i) = kd

\* C6: a pending Q lives only between a permute layer and the next convolution;
\* that convolution gets exactly the pending Q as input Q and clears it; a route
\* layer leaves it alone; only a permute layer publishes one.
C6_PendingWindow ==
    (seq_pc = "run" /\ pending_route_q >= 0) =>
        \E p \in 0..(layer_i - 1) :
            /\ Kind(p) = REORG
            /\ \A x \in (p + 1)..(layer_i - 1) : Kind(x) # CONVOLUTIONAL
C6_Step ==
    /\ (ConvIssued /\ pending_route_q >= 0) =>
           (lastJob'.Qa_in = pending_route_q /\ pending_route_q' = NoPending)
    /\ StepOf(ROUTE) => pending_route_q' = pending_route_q
    /\ (seq_pc = "run" /\ pending_route_q' >= 0 /\ pending_route_q' # pending_route_q)
           => StepOf(REORG)
C6_PendingConsumedOnce == []C6_PendingWindow /\ [][C6_Step]_vars
\* layer 29 ran with a published Q that differs from its table entry
C6_Witness ==
    /\ lastJob.layer = 29 /\ lastJob.pend >= 0 /\ lastJob.Qa_in = lastJob.pend
    /\ Len(act_q) = 24 /\ lastJob.Qa_in # act_q[lastJob.k + 1]
    /\ pending_route_q = NoPending

\* C7: when the cached branch and the permuted tensor have different Q, the
\* alignment step leaves both stored at min(branchQ, currentQ), which is also the
\* published current and pending Q.
C7_Step ==
    (StepOf(REORG) /\ layer_i' = layer_i + 1 /\ precision = INT16
       /\ QOf(stored[BranchLayer]) # QOf(stored[layer_i - 1]))
    => LET common == MIN(QOf(stored[BranchLayer]), QOf(stored[layer_i - 1]))
       IN  /\ QOf(stored'[BranchLayer]) = common
           /\ QOf(stored'[layer_i]) = common
           /\ current_Qa' = common
           /\ pending_route_q' = common
C7_AlignedToMin == [][C7_Step]_vars

\* C8: the k-th convolution (k counting convolutions only) is issued with
\* weight_q[k], bias_q[k], act_q[k] (unless a pending Q is set) and act_q[k+1],
\* at the weight/bias offsets of k, and leaves current_Qa = act_q[k+1]; other
\* layers never advance k or the offsets.
C8_Ordinal ==
    (seq_pc = "run") =>
        /\ offset_index = ConvOrdinal(YoloKinds, layer_i)
        /\ woffset = SumTo(weight_offsets, offset_index)
        /\ boffset = SumTo(beta_offsets, offset_index)
C8_Job ==
    (lastJob # NoJobRec /\ precision = INT16) =>
        LET k == lastJob.k
        IN  /\ k = ConvOrdinal(YoloKinds, lastJob.layer)
            /\ (k < Len(weight_q)) => lastJob.Qw = weight_q[k + 1]
            /\ (k < Len(bias_q)) => lastJob.Qb = bias_q[k + 1]
            /\ (k < Len(act_q) /\ lastJob.pend < 0) => lastJob.Qa_in = act_q[k + 1]
            /\ (k + 1 < Len(act_q)) => lastJob.Qa_out = act_q[k + 2]
            /\ lastJob.woffset = SumTo(weight_offsets, k)
            /\ lastJob.boffset = SumTo(beta_offsets, k)
C8_Step ==
    /\ (ConvIssued /\ precision = INT16) => current_Qa' = lastJob'.Qa_out
    /\ (seq_pc = "run" /\ layer_i < NumLayers /\ Kind(layer_i) # CONVOLUTIONAL)
           => (offset_index' = offset_index /\ woffset' = woffset /\ boffset' = boffset)
C8_TableIndexing == [](C8_Ordinal /\ C8_Job) /\ [][C8_Step]_vars
\* the last convolution (layer 30, k = 22) ran on full tables
C8_Witness ==
    /\ lastJob.layer = 30 /\ lastJob.k = 22 /\ precision = INT16
    /\ Len(act_q) = 24 /\ Len(weight_q) = 23 /\ Len(bias_q) = 23
    /\ lastJob.Qa_out = act_q[24] /\ current_Qa = act_q[24] /\ offset_index = 23

\* C9: inside an inference call, before the first layer runs, the Q state is
\* reset whatever the previous call left behind.
C9_ResetAtStart ==
    (seq_pc = "run" /\ layer_i = 0) =>
        /\ (Len(act_q) > 0) => current_Qa = act_q[1]
        /\ route24_q = 0 /\ pending_route_q = NoPending
        /\ offset_index = 0 /\ woffset = 0 /\ boffset = 0
\* a second call on a context whose first call failed
C9_Witness ==
    /\ impl = "linux" /\ seq_pc = "run" /\ layer_i = 0
    /\ runs = 2 /\ prev_end = "failed" /\ current_Qa = act_q[1]

\* C10: once the backend has reported a failure for a layer, the inference has
\* returned failure, that layer was started at most once, no later layer was
\* started, and nothing more is started in this inference.
C10_Fatal ==
    (failed_at # -1) =>
        /\ seq_pc = "done" /\ seq_rc = -1
        /\ \A x \in 1..Len(starts) : starts[x] <= failed_at
        /\ Cardinality({x \in 1..Len(starts) : starts[x] = failed_at}) <= 1
C10_Step == (failed_at # -1 /\ runs' = runs) => starts' = starts
C10_FailureIsFatal == []C10_Fatal /\ [][C10_Step]_vars
\* layer 12 was started and the backend reported a timeout
C10_Witness ==
    /\ failed_at = 12 /\ backend_result = YOLO2_TIMEOUT
    /\ Len(starts) > 0 /\ starts[Len(starts)] = 12
    /\ seq_pc = "done" /\ seq_rc = -1

----------------------------------------------------------------------------
\* Properties of the Linux driver.

\* a driver call is in progress or has returned, and it got past the
\* "not initialized" test
DrvCalled == drv_job # NoDrvJob /\ drv_result # YOLO2_INIT_ERROR
\* the job's parameters exceed a maximum of the hardware
ExceedsHardware(j) == ~validate_conv_params(j)

\* C11: a job, convolution or max-pool, whose parameters exceed a hardware
\* maximum is rejected with the invalid-parameter result, and the call writes no
\* Q GPIO, no control register and no START.
C11_RejectedBeforeAnyWrite ==
    (DrvCalled /\ ExceedsHardware(drv_job))
        => (call_writes = {} /\ drv_result = YOLO2_ERROR)

\* a job has been started and has not completed
InFlight == ap_start \/ dev_running
\* this step writes AP_START
WritesStart == drv_pc = "start" /\ start_writes' = start_writes + 1

\* C12: START is written only when the previously started job has completed and
\* the device is idle, so at most one job is in flight.
C12_StartOnlyWhenIdle == [][WritesStart => ~InFlight]_vars

\* the last yolo2_is_busy call was made on an initialized driver
BusyAsked == busy_ret # -1 /\ initialized

\* C19: yolo2_is_busy returns 1 exactly while the device is processing and 0
\* when it is idle, before any job and after a completed job alike.
C19_BusyIffProcessing == BusyAsked => (busy_ret = 1 <=> busy_truth)

\* the call returns success for a job it started
ReturnsSuccess == drv_pc = "ret" /\ drv_result = YOLO2_SUCCESS
\* since this call's START the device completed a job and is idle again
RanToCompletion == dev_ends > ends_at_start /\ ~InFlight

\* C20: a driver call returns success only if, after its START, the device ran
\* the job and returned to IDLE.
C20_SuccessMeansRan == ReturnsSuccess => ("start" \in call_writes /\ RanToCompletion)

----------------------------------------------------------------------------
\* Properties of the cache maintenance of the Linux orchestrator.

\* a job has been started by the orchestrator and has not completed yet
JobStarted == cache_pc = "running"

\* C13: when START is written for a convolution or max-pool job, no range the
\* device reads for it (input, weights, bias) is dirty: each was flushed after
\* the CPU's last write to it.
C13_FlushedBeforeStart ==
    JobStarted => (dev_read_dirty = {} /\ Touched(dirty, dev_reads) = {})
\* the convolution after the reorg layer is started on the buffer the CPU wrote
C13_Witness ==
    /\ JobStarted /\ cache_i = 29 /\ Kind(29) = CONVOLUTIONAL /\ Kind(27) = REORG
    /\ dev_read_dirty = {} /\ cache_runs = 1

----------------------------------------------------------------------------
\* Properties of the quantization tables.

\* one of the quantization tables is absent
TableAbsent == act_q = <<>> \/ weight_q = <<>> \/ bias_q = <<>>
\* the inference was aborted before its first layer
AbortedAtBegin ==
    /\ runs > 0 /\ seq_pc = "done" /\ seq_rc = -1
    /\ failed_at = -1 /\ starts = <<>> /\ lastJob = NoJobRec

\* C15: an absent quantization table is recoverable: the inference is not
\* aborted because of it (the missing Q values are taken as 0), in fixed-point
\* mode as in floating-point mode.
C15_AbsentTableRecoverable == TableAbsent => ~AbortedAtBegin

----------------------------------------------------------------------------
\* Properties of the rescale.

\* both rescales have been applied, with a shift inside the clamped range
RoundTripDone == rs_pc = "out" /\ Abs(rs_s) <= SHIFT_CLAMP

\* C16 as stated: the round trip by s and -s returns the value exactly in float
\* mode and within 1 unit of the value in fixed-point mode, for every shift.
C16_Original ==
    RoundTripDone => IF rs_mode = FP32 THEN rs_out = rs_v ELSE Abs(rs_out - rs_v) <= 1

\* C16: the round trip by s and -s returns the value exactly in float mode; in
\* fixed-point mode it is exact when s <= 0 (up, then down) and within half a
\* unit of the coarser format, 2^(s-1) units of the value, when s > 0.
C16_RoundTrip ==
    RoundTripDone =>
        IF rs_mode = FP32 \/ rs_s <= 0 THEN rs_out = rs_v
        ELSE 2 * Abs(rs_out - rs_v) <= Pow2(ShiftMag(rs_s))
\* a fixed-point round trip through a coarser format that lost more than one unit
C16_Witness ==
    /\ RoundTripDone /\ rs_mode = INT16 /\ rs_s > 1 /\ Abs(rs_out - rs_v) > 1

----------------------------------------------------------------------------
\* Max-pool window
RealCells == {t \in Taps : CellEnabled(TapRow(t), TapCol(t))}
PoolDoneOneReal == pool_pc = "done" /\ Cardinality(RealCells) = 1
TheRealValue ==
    LET t == CHOOSE u \in Taps : u \in RealCells
    IN  pool_image[pool_Roffset + TapRow(t)][pool_Coffset + TapCol(t)]

\* C17: a pooling window made of padding entries plus exactly one real value
\* outputs that real value, and the output is never the running-maximum
\* sentinel, in the fixed-point build as well as in the floating-point build.
C17_OneRealValueWins ==
    PoolDoneOneReal => pool_out = TheRealValue /\ pool_out # PoolSentinel(pool_mode)


----------------------------------------------------------------------------
\* DMA buffer manager
InBlock(b, p) == p >= b.ptr /\ p < b.ptr + b.size
LookedUp == mem_last = "looked_up"

\* C18: for every pointer inside a currently allocated block [ptr, ptr+size),
\* memory_get_phys_addr returns the block's physical base plus (p - ptr),
\* with any number of live blocks and after other blocks were allocated or freed.
C18_PhysOfSubRange ==
    LookedUp => \A b \in mem_live :
                    InBlock(b, lookup_p) => lookup_ret = b.phys_addr + (lookup_p - b.ptr)
\* a lookup with a non-zero offset into a block that is not the first of the
\* table, with two blocks live and after a free
C18_Witness ==
    /\ LookedUp /\ mem_freed /\ Cardinality(mem_live) >= 2
    /\ \E b \in mem_live : /\ InBlock(b, lookup_p) /\ lookup_p > b.ptr
                           /\ Len(mem_ctx_buffers) >= 2 /\ mem_ctx_buffers[2] = b
                           /\ lookup_ret = b.phys_addr + (lookup_p - b.ptr)

----------------------------------------------------------------------------
\* Convolution kernel
Stored == DOMAIN kn_store # {}
StoredM == kn_m - kn_job.TM
GroupStarts == {g * kn_job.TN : g \in 0..(CeilDiv(kn_job.IFM_num, kn_job.TN) - 1)}
\* the products of one output channel of the stored tile: every tap of every
\* input channel of the layer, with the weight loaded for it
TileTerms(tm) ==
    {[w |-> [lid |-> kn_layers, m |-> StoredM, n |-> g, t1 |-> tm, t2 |-> tn, t3 |-> i, t4 |-> j],
      x |-> [lid |-> kn_layers, ch |-> g + tn], i |-> i, j |-> j] :
        g \in GroupStarts, tn \in {t \in 0..(Tn - 1) : t < kn_job.TN},
        i \in 0..(kn_job.Ksize - 1), j \in 0..(kn_job.Ksize - 1)}
TileValue(tm) ==
    [bias |-> [src |-> [lid |-> kn_layers, ch |-> StoredM + tm],
               shift |-> kn_job.Qb - kn_job.Qa_out],
     terms |-> {e \in TileTerms(tm) : e.x.ch < kn_job.IFM_num},
     twice |-> FALSE]

LoadedN == kn_n - kn_job.TN
LoadedTN_MIN == MIN(kn_job.TN, kn_job.IFM_num - LoadedN)
WeightsPadded ==
    (kn_pc = "n_loop" /\ kn_loaded >= 0) =>
        \A tm \in 0..(Tm - 1), tn \in 0..(Tn - 1),
           i \in 0..(kn_job.Ksize - 1), j \in 0..(kn_job.Ksize - 1) :
            (tm >= KernTM_MIN \/ tn >= LoadedTN_MIN) => kn_wbuf[kn_loaded][tm][tn][i][j] = ZeroW
BiasPadded ==
    (kn_pc = "n_loop" /\ kn_n > 0) =>
        \A tm \in 0..(Tm - 1) : tm >= KernTM_MIN => kn_lbeta[tm] = ZeroB

\* C24: once a tile's weights and bias are loaded, every weight entry outside
\* the TM_MIN x TN_MIN sub-block is zero and every bias entry at or beyond
\* TM_MIN is zero.
C24_TilesZeroPadded == WeightsPadded /\ BiasPadded

----------------------------------------------------------------------------
\* Rescale sites
ShiftDone == sh_pc = "done" /\ sh_dir # "none"

\* C22: at every rescale site the shift that is executed has an amount between
\* 0 and the safe maximum 30, below the operand width, whatever the Q tables hold.
C22_ShiftClamped == ShiftDone => sh_amount >= 0 /\ sh_amount <= SHIFT_CLAMP

\* C23: at every rescale site a right shift by s > 0 adds 1 << (s-1) first:
\* the result is (v + 2^(s-1)) >> s (round-half-up).
C23_RoundHalfUp ==
    (ShiftDone /\ sh_dir = "right" /\ sh_amount <= SHIFT_CLAMP) =>
        sh_out = Clamp16((sh_v + Pow2(sh_amount - 1)) \div Pow2(sh_amount))

----------------------------------------------------------------------------
\* Tile loops
LoopStarted == tl_pc # "idle"
LoopReturned == tl_pc = "done"

\* C25: a run started with arguments that pass validate_conv_params and the
\* kernel's assertions goes through all its tile loops and the device comes back
\* to IDLE.
C25_TileLoopsTerminate == LoopStarted ~> LoopReturned

----------------------------------------------------------------------------
\* Input scale of the convolutions
\* the layer whose output lies at in_ptr[x]: in_ptr[26] is the slot of layer 16's
\* output, in_ptr[29] is out_ptr[27]; every other layer reads its predecessor
SkipSource == 16
InputOf(x) == IF x = 26 THEN SkipSource ELSE IF x = 29 THEN 27 ELSE x - 1
\* the Q at which the tensor at in_ptr[x] was produced; the image at in_ptr[0]
\* is quantized at act_q[0]
ProducedQ(x) == IF x = 0 THEN act_q[1] ELSE QOf(stored[InputOf(x)])
C26_Step ==
    (ConvIssued /\ precision = INT16) => lastJob'.Qa_in = ProducedQ(layer_i)

\* C26: every convolution is issued with an input Q equal to the Q at which the
\* tensor at its input address was produced, layer 26 (input: the output of
\* layer 16) included.
C26_InputQMatches == [][C26_Step]_vars

----------------------------------------------------------------------------
\* Q GPIOs at the start of a convolution
\* AP_START has been written for the convolution job of the current call
ConvJobStarted == drv_job.kind = CONVOLUTIONAL /\ "start" \in call_writes

\* C27: when a convolution job is started the four Q GPIO registers hold the
\* Qw, Qa_in, Qa_out and Qb of that job, also when all four are zero and the
\* job before used other values.
C27_GpioHoldsJobQ == ConvJobStarted => q_gpio = drv_job.qs

----------------------------------------------------------------------------
\* dma_buffer_cleanup
Cleaned == dc_last = "cleaned"

\* C28: dma_buffer_cleanup unmaps and closes every block that was tracked when it
\* was called, whatever their number, and leaves the table empty.
C28_CleanupReleasesAll == Cleaned => dc_buffers = <<>> /\ dc_before \cap dc_open = {}

----------------------------------------------------------------------------
\* MJPEG streamer start-up
StartReturned == caller.returned
StartWaiting == caller.pc = "start_lock"
\* return 0: the thread reported 1, *out is the streamer, and the server listens
\* for as long as nobody asks it to stop
StartReturnsZero ==
    (StartReturned /\ caller.ret = 0) =>
        /\ caller.out = "s" /\ thread.reported /\ thread.ok /\ strm.started = 1
        /\ strm.stop = 0 => strm.listen
\* return -1: *out is NULL, nothing is left allocated or listening, and a thread
\* that was created reported a failure and has been joined
StartReturnsFail ==
    (StartReturned /\ caller.ret = -1) =>
        /\ caller.out = "NULL" /\ ~strm.alive /\ ~strm.listen
        /\ thread.pc \in {"none", "exited"}
        /\ thread.pc # "none" => thread.reported /\ ~thread.ok

\* C29: yolo2_mjpeg_streamer_start returns only after the thread reported its
\* start-up result: 0 with *out set only when the server listens, otherwise -1
\* with *out NULL, the thread joined and everything released; and once the
\* thread exists the call always returns.
C29_StartHandshake ==
    /\ [](StartReturnsZero /\ StartReturnsFail)
    /\ StartWaiting ~> StartReturned
\* start returned -1 after the thread reported a failure and was joined
C29_Witness ==
    /\ StartReturned /\ caller.ret = -1 /\ caller.from = "start"
    /\ thread.pc = "exited" /\ thread.reported

\* MJPEG streamer frame hand-off
SentConsistent ==
    sghost.sent # NoSent =>
        /\ sghost.sent.bytes = FrameBytes(sghost.sent.w, sghost.sent.h)
        /\ sghost.sent.data.w = sghost.sent.w /\ sghost.sent.data.h = sghost.sent.h
StopFlagSet == strm.stop = 1
StopDone == thread.pc = "exited" /\ caller.pc \in {"stopped", "returned"}

\* C30: the thread never reads the shared frame while update_rgb24 reallocates or
\* writes it, every frame sent has the width and height of the bytes copied, the
\* buffers are freed only after the thread has exited, and once the stop flag is
\* set the thread exits and stop returns.
C30_FrameHandOff ==
    /\ [](~sghost.racy /\ ~sghost.early_free /\ SentConsistent)
    /\ StopFlagSet ~> StopDone
\* the frame of the second update was sent, and the streamer was then stopped
C30_Witness ==
    /\ sghost.sent.data.seq = 2 /\ caller.pc = "stopped" /\ thread.pc = "exited"

====
